---- MODULE Spec2Model ----
(***************************************************************************)
(* Poll-cycle orchestration and deduplication of the TLScontact Gmail      *)
(* watcher: app/watcher.py (run_poll_cycle, start_continuous_polling) and  *)
(* app/storage.py (SqliteStorage); the /poll triggers of app/main.py; and, *)
(* each on its own, the storage module, retry_with_backoff and RateLimiter *)
(* of app/utils.py, and parse_message of app/parser.py.                    *)
(***************************************************************************)
EXTENDS Integers, Sequences, FiniteSets, TLC

\* ------------------------------------------------------------------ bounds
NumIds  == 2     \* message ids the mailbox can list
MaxList == 2     \* POLL_LIMIT: most messages one listing returns
MaxCap  == 1     \* largest POLL_MAX_SENDS_PER_RUN tried
MaxDays == 2     \* days the clock runs, and the largest older_than_days tried
MaxRetries == 2  \* largest max_retries tried
MaxTokens == 2   \* largest n of acquire(n) tried
MaxTicks == 4    \* clock ticks the rate limiter is watched for
TickSeconds == 5 \* seconds between two looks at the clock
MaxWords == 1    \* most words in the text of one message field
MaxParts == 2    \* most parts a message body is put together from

Ids   == 1..NumIds
Procs == {"loop", "poll"}   \* the polling loop, and a /poll request

\* ------------------------------------------------------------------- state
VARIABLES
    store,          \* rows of table processed_messages
    storage_impl,   \* module global of storage.py: TRUE once SqliteStorage exists
    now,            \* time.time() as mark_processed reads it
    max_sends,      \* POLL_MAX_SENDS_PER_RUN
    isTls,          \* parse_message(get_message(id))['isTls'], fixed per message
    loopPc,         \* position of start_continuous_polling
    lastOutcome,    \* history: how the loop's previous cycle ended
    cyc,            \* per caller: the frame of run_poll_cycle
    notifiedTotal,  \* history: successful sends per id over all cycles (saturates at 2)
    lastOp,         \* storage.py on its own: the last call made and what it returned
    retry,          \* utils.py: the frame of retry_with_backoff
    limiter,        \* utils.py: a RateLimiter and the callers inside acquire
    mail,           \* parser.py: a message and what parse_message returned for it
    query           \* watcher.py: the search query a cycle builds from its settings

vars == <<store, storage_impl, now, max_sends, isTls, loopPc, lastOutcome, cyc,
          notifiedTotal, lastOp, retry, limiter, mail, query>>

hist == <<lastOutcome, notifiedTotal>>

\* the components examined on their own; a poll cycle leaves them alone
aside == <<lastOp, retry, limiter, mail, query>>

conf == <<max_sends, isTls, aside>>

\* ----------------------------------------------------------------- helpers
Min(a, b) == IF a < b THEN a ELSE b

Range(s) == {s[i] : i \in 1..Len(s)}

\* sequences of distinct ids, at most MaxList long: what list_messages returns
Listings == {s \in UNION {[1..n -> Ids] : n \in 0..MaxList} :
                \A i, j \in 1..Len(s) : i # j => s[i] # s[j]}

\* ------------------------------------------------------------ storage.py
StoredIds(st) == {r.message_id : r \in st}

\* variant: the lookup never finds the row
has_processed_Never(st, id) == FALSE

has_processed(st, id) == \E r \in st : r.message_id = id

\* variant: a plain INSERT, which raises on an existing primary key
InsertConflicts_Plain(st, id) == id \in StoredIds(st)

\* `INSERT OR IGNORE`: an existing primary key is no error
InsertConflicts(st, id) == FALSE

SecondsPerDay == 86400   \* 24 * 60 * 60
MillisPerSecond == 1000

\* int(time.time() * 1000), and the same factor in cleanup's cutoff
Millis(t) == t * MillisPerSecond

\* no value: a call that returns nothing gives None
None == {}

\* a value handed back by `return v`
Returned(v) == {v}

\* variant: INSERT OR REPLACE, the later write wins
mark_processed_Replace(st, id, t) ==
    {r \in st : r.message_id # id} \cup {[message_id |-> id, processed_at |-> t]}

\* INSERT OR IGNORE on the primary key message_id
mark_processed(st, id, t) ==
    IF \E r \in st : r.message_id = id
    THEN st
    ELSE st \cup {[message_id |-> id, processed_at |-> t]}

\* SqliteStorage.cleanup: the DELETE with its cutoff in epoch milliseconds
cleanup_Kept(st, older_than_days, t) ==
    LET cutoff == Millis(t - older_than_days * SecondsPerDay)
    IN  {r \in st : ~(r.processed_at < cutoff)}

\* cleanup has no return statement: `changes` only goes into the log line
cleanup_Result(st, older_than_days, t) == None

\* ------------------------------------------------------ run_poll_cycle
NewStats == [checked |-> 0, new |-> 0, processed |-> 0, notified |-> 0,
             errors |-> <<>>]

NoCycle == [pc |-> "none", stats |-> NewStats, messages |-> <<>>, idx |-> 0,
            sent_count |-> 0, why |-> "none", store0 |-> {},
            fetched |-> {}, rejected |-> {}, attempted |-> {}, sent |-> {},
            skipped |-> {}, failed |-> {}]

\* the frame on entry (lines 12-21); store0 remembers the store on entry
EnterCycle(st) == [NoCycle EXCEPT !.pc = "init", !.store0 = st]

message_id(c) == c.messages[c.idx]

InLoop(c) == c.pc \in {"has", "fetch", "parse", "send", "mark"}

\* `for msg in messages` advancing; after the last message lines 115-116 return
NextMessage(c) ==
    IF c.idx + 1 > Len(c.messages)
    THEN [c EXCEPT !.idx = c.idx + 1, !.pc = "returned", !.why = "none"]
    ELSE [c EXCEPT !.idx = c.idx + 1, !.pc = "has", !.why = "none"]

\* variant: the handler records the entry and leaves the loop
MessageFailed_Break(c, op) ==
    [c EXCEPT !.stats.errors =
                  Append(@, [messageId |-> message_id(c), error |-> op]),
              !.idx = c.idx + 1, !.pc = "returned", !.why = "none"]

\* variant: the handler records the entry and re-raises
MessageFailed_Reraise(c, op) ==
    [c EXCEPT !.stats.errors =
                  Append(@, [messageId |-> message_id(c), error |-> op]),
              !.pc = "raised"]

\* inner `except Exception` (lines 108-113): one entry, then the next message
MessageFailed(c, op) ==
    NextMessage([c EXCEPT !.stats.errors =
                     Append(@, [messageId |-> message_id(c), error |-> op])])

\* outer `except Exception` (lines 118-124): one entry, then `raise e`
CycleFailed(c, op) ==
    [c EXCEPT !.stats.errors = Append(@, [phase |-> "initialization", error |-> op]),
              !.pc = "raised"]

\* variant: `>` for `>=`
SendLimitReached_OffByOne(c, cap) == c.sent_count > cap

\* line 91: `if sent_count >= max_sends`
SendLimitReached(c, cap) == c.sent_count >= cap

\* variant: every message passes for a TLScontact one
NotTls_Never(id) == FALSE

\* line 85: `if not parsed.get('isTls')`
NotTls(id) == ~isTls[id]

\* history bookkeeping of a raise while handling one message
Raised(c, op) == [id |-> message_id(c), op |-> op]

\* lines 24-46: init_storage, init_gmail_client, init_telegram_client, the
\* query and the int() conversions of the limits
InitClients(p) ==
    /\ cyc[p].pc = "init"
    /\ \E outcome \in {"ok", "init_storage", "init_gmail_client",
                       "init_telegram_client", "config"} :
         \* init_storage returns the existing handle without touching the disk
         /\ (outcome = "init_storage") => ~storage_impl
         /\ storage_impl' = (storage_impl \/ outcome # "init_storage")
         /\ cyc' = [cyc EXCEPT ![p] =
                      IF outcome = "ok" THEN [@ EXCEPT !.pc = "list"]
                      ELSE CycleFailed(@, outcome)]
    /\ UNCHANGED <<store, now, conf, loopPc, hist>>

\* lines 51-60: list_messages raises, returns nothing, or returns messages
ListMessages(p) ==
    /\ cyc[p].pc = "list"
    /\ \/ cyc' = [cyc EXCEPT ![p] = CycleFailed(@, "list_messages")]
       \/ \E msgs \in Listings :
            cyc' = [cyc EXCEPT ![p] =
                      IF msgs = <<>>
                      THEN [@ EXCEPT !.stats.checked = 0, !.pc = "returned"]
                      ELSE [@ EXCEPT !.stats.checked = Len(msgs),
                                     !.messages = msgs, !.idx = 1,
                                     !.sent_count = 0, !.pc = "has"]]
    /\ UNCHANGED <<store, storage_impl, now, conf, loopPc, hist>>

\* lines 64-72
HasProcessed(p) ==
    /\ cyc[p].pc = "has"
    /\ \/ cyc' = [cyc EXCEPT ![p] =
                    [MessageFailed(@, "has_processed") EXCEPT
                        !.failed = @ \cup {Raised(cyc[p], "has_processed")}]]
       \/ /\ has_processed(store, message_id(cyc[p]))
          /\ cyc' = [cyc EXCEPT ![p] =
                       NextMessage([@ EXCEPT !.stats.processed = @ + 1])]
       \/ /\ ~has_processed(store, message_id(cyc[p]))
          /\ cyc' = [cyc EXCEPT ![p] =
                       [@ EXCEPT !.stats.new = @ + 1, !.pc = "fetch"]]
    /\ UNCHANGED <<store, storage_impl, now, conf, loopPc, hist>>

\* lines 75-79
GetMessage(p) ==
    /\ cyc[p].pc = "fetch"
    /\ \/ cyc' = [cyc EXCEPT ![p] =
                    [MessageFailed(@, "get_message") EXCEPT
                        !.failed = @ \cup {Raised(cyc[p], "get_message")}]]
       \/ cyc' = [cyc EXCEPT ![p] =
                    [@ EXCEPT !.fetched = @ \cup {message_id(cyc[p])},
                              !.pc = "parse"]]
    /\ UNCHANGED <<store, storage_impl, now, conf, loopPc, hist>>

\* variant: a matching message under the limit is marked before it is sent
Dispatch_MarkFirst(c, cap) ==
    IF NotTls(message_id(c))
    THEN [c EXCEPT !.pc = "mark", !.why = "notTls"]
    ELSE IF SendLimitReached(c, cap)
         THEN [c EXCEPT !.pc = "mark", !.why = "limit",
                        !.skipped = @ \cup {message_id(c)}]
         ELSE [c EXCEPT !.pc = "mark", !.why = "early"]

\* variant: the limit is logged but the message is sent all the same
Dispatch_SendAnyway(c, cap) ==
    IF NotTls(message_id(c))
    THEN [c EXCEPT !.pc = "mark", !.why = "notTls"]
    ELSE IF SendLimitReached(c, cap)
         THEN [c EXCEPT !.pc = "send",
                        !.attempted = @ \cup {message_id(c)},
                        !.skipped = @ \cup {message_id(c)}]
         ELSE [c EXCEPT !.pc = "send",
                        !.attempted = @ \cup {message_id(c)}]

\* lines 85-97: what follows a classification
\*   not TLScontact            -> mark_processed, no send
\*   send limit reached        -> mark_processed, no send
\*   otherwise                 -> send_appointment_notification
Dispatch(c, cap) ==
    IF NotTls(message_id(c))
    THEN [c EXCEPT !.pc = "mark", !.why = "notTls"]
    ELSE IF SendLimitReached(c, cap)
         THEN [c EXCEPT !.pc = "mark", !.why = "limit",
                        !.skipped = @ \cup {message_id(c)}]
         ELSE [c EXCEPT !.pc = "send",
                        !.attempted = @ \cup {message_id(c)}]

\* lines 82-97: parse_message raises, or classifies and dispatches
ParseMessage(p) ==
    /\ cyc[p].pc = "parse"
    /\ LET c  == cyc[p]
           id == message_id(c)
       IN \/ /\ cyc' = [cyc EXCEPT ![p] =
                          [MessageFailed(@, "parse_message") EXCEPT
                              !.failed = @ \cup {Raised(c, "parse_message")}]]
          \/ /\ cyc' = [cyc EXCEPT ![p] =
                          [Dispatch(@, max_sends) EXCEPT
                              !.rejected = IF isTls[id] THEN @ ELSE @ \cup {id}]]
    /\ UNCHANGED <<store, storage_impl, now, conf, loopPc, lastOutcome,
                   notifiedTotal>>

\* variant: a send that raised is counted against the limit all the same
SendFailed_Counted(c) ==
    MessageFailed([c EXCEPT !.sent_count = @ + 1], "send")

\* line 98 raising: lines 100-101 are not reached, the handler takes over
SendFailed(c) == MessageFailed(c, "send")

\* lines 98-101: the send is in flight while pc = "send"; it raises, or it
\* returns and both counters go up
SendNotification(p) ==
    /\ cyc[p].pc = "send"
    /\ LET c  == cyc[p]
           id == message_id(c)
       IN \/ /\ cyc' = [cyc EXCEPT ![p] =
                          [SendFailed(@) EXCEPT
                              !.failed = @ \cup {Raised(c, "send")}]]
             /\ UNCHANGED notifiedTotal
          \/ /\ cyc' = [cyc EXCEPT ![p] =
                          [@ EXCEPT !.sent_count = @ + 1,
                                    !.stats.notified = @ + 1,
                                    !.sent = @ \cup {id},
                                    !.pc = "mark", !.why = "sent"]]
             /\ notifiedTotal' =
                    [notifiedTotal EXCEPT ![id] = Min(@ + 1, 2)]
    /\ UNCHANGED <<store, storage_impl, now, conf, loopPc, lastOutcome>>

\* lines 87, 93, 104: mark_processed raises before the row exists, or inserts
MarkProcessed(p) ==
    /\ cyc[p].pc = "mark"
    /\ LET c  == cyc[p]
           id == message_id(c)
       IN \/ /\ cyc' = [cyc EXCEPT ![p] =
                          [MessageFailed(@, "mark_processed") EXCEPT
                              !.failed = @ \cup {Raised(c, "mark_processed")}]]
             /\ UNCHANGED store
          \/ IF InsertConflicts(store, id)
             THEN /\ cyc' = [cyc EXCEPT ![p] =
                               [MessageFailed(@, "IntegrityError") EXCEPT
                                   !.failed = @ \cup {Raised(c, "IntegrityError")}]]
                  /\ UNCHANGED store
             ELSE /\ store' = mark_processed(store, id, Millis(now))
                  /\ cyc' = [cyc EXCEPT ![p] = NextMessage(@)]
    /\ UNCHANGED <<storage_impl, now, conf, loopPc, hist>>

\* ------------------------------------------- start_continuous_polling
\* variant: no `except`, the error ends the loop
SwallowCycleError_Propagate(lp) == "dead"

\* lines 136-137 and 144-146: the error is logged and the loop goes on
SwallowCycleError(lp) == "sleep"

\* lines 133-135: the first cycle, with no sleep before it
RunInitial ==
    /\ loopPc = "first"
    /\ loopPc' = "cycle"
    /\ cyc' = [cyc EXCEPT !["loop"] = EnterCycle(store)]
    /\ UNCHANGED <<store, storage_impl, now, conf, hist>>

\* run_poll_cycle returned its stats to the loop, which drops them
CycleReturned ==
    /\ loopPc = "cycle"
    /\ cyc["loop"].pc = "returned"
    /\ loopPc' = "sleep"
    /\ lastOutcome' = "returned"
    /\ cyc' = [cyc EXCEPT !["loop"] = NoCycle]
    /\ UNCHANGED <<store, storage_impl, now, conf, notifiedTotal>>

\* run_poll_cycle raised into the loop's `except Exception`
CycleRaised ==
    /\ loopPc = "cycle"
    /\ cyc["loop"].pc = "raised"
    /\ loopPc' = SwallowCycleError(loopPc)
    /\ lastOutcome' = "raised"
    /\ cyc' = [cyc EXCEPT !["loop"] = NoCycle]
    /\ UNCHANGED <<store, storage_impl, now, conf, notifiedTotal>>

\* lines 140-143: asyncio.sleep(interval_seconds), then the next cycle
SleepThenRun ==
    /\ loopPc = "sleep"
    /\ loopPc' = "cycle"
    /\ cyc' = [cyc EXCEPT !["loop"] = EnterCycle(store)]
    /\ UNCHANGED <<store, storage_impl, now, conf, hist>>

\* ------------------------------------------------------- specification
\* nothing is going on in the components examined on their own
AsideIdle ==
    /\ lastOp = [name |-> "none"]
    /\ retry = [pc |-> "none"]
    /\ limiter = [pc |-> "none"]
    /\ mail = [pc |-> "none"]
    /\ query = [pc |-> "none"]

CycleIdle ==
    /\ storage_impl = FALSE
    /\ max_sends = 0
    /\ isTls = [id \in Ids |-> FALSE]
    /\ loopPc = "first"
    /\ lastOutcome = "none"
    /\ cyc = [p \in Procs |-> NoCycle]
    /\ notifiedTotal = [id \in Ids |-> 0]

cycleVars == <<storage_impl, max_sends, isTls, loopPc, lastOutcome, cyc,
               notifiedTotal>>

Init ==
    /\ AsideIdle
    /\ store = {}
    /\ storage_impl = FALSE
    /\ now = 0
    /\ max_sends \in 0..MaxCap
    \* ids are interchangeable: the matching messages are the ids 1..k
    /\ \E k \in 0..NumIds : isTls = [id \in Ids |-> id <= k]
    /\ loopPc = "first"
    /\ lastOutcome = "none"
    /\ cyc = [p \in Procs |-> NoCycle]
    /\ notifiedTotal = [id \in Ids |-> 0]

Next ==
    \/ RunInitial
    \/ SleepThenRun
    \/ CycleReturned
    \/ CycleRaised
    \/ InitClients("loop")
    \/ ListMessages("loop")
    \/ HasProcessed("loop")
    \/ GetMessage("loop")
    \/ ParseMessage("loop")
    \/ SendNotification("loop")
    \/ MarkProcessed("loop")

Spec == Init /\ [][Next]_vars

\* every awaited call (sleep, Gmail, Telegram with its 10 s timeout) returns
LiveSpec == Spec /\ WF_vars(Next)

TypeOK ==
    /\ store \subseteq [message_id : Ids, processed_at : {now}]
    /\ storage_impl \in BOOLEAN
    /\ now = 0
    /\ max_sends \in 0..MaxCap
    /\ loopPc \in {"first", "cycle", "sleep", "dead"}
    /\ \A p \in Procs :
         /\ cyc[p].pc \in {"none", "init", "list", "has", "fetch", "parse",
                           "send", "mark", "returned", "raised"}
         /\ cyc[p].idx \in 0..(MaxList + 1)

\* ------------------------------------------------------------ properties
L   == cyc["loop"]
cur == message_id(L)

AtMessage == InLoop(L)

\* entries of stats.errors that name message id
ErrorsFor(c, id) ==
    {i \in 1..Len(c.stats.errors) :
        /\ "messageId" \in DOMAIN c.stats.errors[i]
        /\ c.stats.errors[i].messageId = id}

MarkRaisedFor(c, id) ==
    \E f \in c.failed : f.id = id /\ f.op = "mark_processed"

\* C1 as stated: over all cycles of the polling loop (which never overlap and
\* never purge) no message id is notified more than once.
C1_NotifiedAtMostOnce == \A id \in Ids : notifiedTotal[id] <= 1

\* C1 amended: once an id is in the dedup store no step starts a send for it
\* or notifies it, the row stays, and a cycle that tests it with has_processed
\* counts it under `processed`; only an id whose mark_processed raised after
\* its send (so it is not in the store) is notified again.
C1_StoredNeverNotified ==
    [][\A id \in StoredIds(store) :
          /\ id \in StoredIds(store')
          /\ notifiedTotal'[id] = notifiedTotal[id]
          /\ ~(cyc'["loop"].pc = "send" /\ message_id(cyc'["loop"]) = id)
          /\ (L.pc = "has" /\ cur = id /\ cyc'["loop"].failed = L.failed)
                => cyc'["loop"].stats.processed = L.stats.processed + 1]_vars

\* C1 witness: a later cycle has listed an id that an earlier cycle notified
\* and marked, and has counted it under `processed`.
C1_Witness ==
    /\ L.pc = "returned"
    /\ \E id \in Range(L.messages) :
         /\ id \in StoredIds(L.store0)
         /\ notifiedTotal[id] = 1
    /\ L.stats.processed = Len(L.messages)
    /\ L.stats.notified = 0

\* C2: in every cycle `notified`, and the number of successful sends, never
\* exceeds POLL_MAX_SENDS_PER_RUN.
C2_NotifiedWithinCap ==
    /\ L.stats.notified <= max_sends
    /\ Cardinality(L.sent) <= max_sends
    /\ L.sent_count = L.stats.notified

\* C2 witness: the cap is reached and one more matching message was turned
\* away.
C2_Witness ==
    /\ max_sends >= 1
    /\ L.stats.notified = max_sends
    /\ L.skipped # {}

\* C3: for a matching message handled under the send limit, mark_processed is
\* reached only after the send for that id returned in this cycle; while the
\* send is in flight, and after it failed, the id is not in the dedup store.
C3_MarkAfterSend ==
    /\ (L.pc = "mark" /\ isTls[cur] /\ cur \notin L.skipped) => cur \in L.sent
    /\ L.pc = "send" => cur \notin StoredIds(store)
    /\ \A f \in L.failed : f.op = "send" => f.id \notin StoredIds(store)
    /\ L.pc # "none" =>
          \A id \in StoredIds(store) \ StoredIds(L.store0) :
              (isTls[id] /\ id \notin L.skipped) => id \in L.sent

\* C3 witness: one send failed in this cycle and another returned, its id
\* about to be marked.
C3_Witness ==
    /\ L.pc = "mark"
    /\ L.why = "sent"
    /\ cur \in L.sent
    /\ \E f \in L.failed : f.op = "send"

\* C4: a raise while fetching, classifying, sending or marking one message
\* adds exactly one entry for it, leaves it unmarked, does not make the cycle
\* raise, and the cycle still handles every listed message before it returns.
C4_MessageErrorIsolated ==
    /\ \A id \in Ids :
          Cardinality(ErrorsFor(L, id)) = Cardinality({f \in L.failed : f.id = id})
    /\ \A f \in L.failed :
          /\ Cardinality(ErrorsFor(L, f.id)) = 1
          /\ f.op # "has_processed" => f.id \notin StoredIds(store)
    /\ L.failed # {} => L.pc # "raised"
    /\ L.pc = "returned" =>
          /\ L.idx = Len(L.messages) + 1 \/ L.messages = <<>>
          /\ L.stats.new + L.stats.processed
               + Cardinality({f \in L.failed : f.op = "has_processed"})
             = Len(L.messages)

\* C4 witness: the first of two messages raised in mark_processed after its
\* send, and the second was still sent and marked.
C4_Witness ==
    /\ L.pc = "returned"
    /\ Len(L.messages) = 2
    /\ MarkRaisedFor(L, L.messages[1])
    /\ L.messages[2] \in L.sent
    /\ L.messages[2] \in StoredIds(store)
    /\ Len(L.stats.errors) = 1

InitOps == {"init_storage", "init_gmail_client", "init_telegram_client", "config"}

\* what the raising cycle recorded last: the call that threw
RaisedBy(c) == c.stats.errors[Len(c.stats.errors)].error

\* C5 as stated: run_poll_cycle raises only when the initialization phase
\* threw; neither the mailbox listing nor a message makes it raise.
C5_RaisesOnlyFromInit == L.pc = "raised" => RaisedBy(L) \in InitOps

\* C5 amended: run_poll_cycle raises only when the initialization phase or
\* the mailbox listing (list_messages) threw, before any message was handled;
\* no failure while handling a message makes it raise.
C5_RaisesOnlyBeforeLoop ==
    /\ L.pc = "raised" =>
          /\ RaisedBy(L) \in InitOps \cup {"list_messages"}
          /\ L.messages = <<>>
          /\ L.stats.checked = 0
    /\ L.failed # {} => L.pc # "raised"

\* C5 witness: the listing threw after a successful initialization and the
\* cycle raised.
C5_Witness ==
    /\ L.pc = "raised"
    /\ RaisedBy(L) = "list_messages"
    /\ storage_impl

\* C6: whenever run_poll_cycle raises, the dedup store is the store the cycle
\* started with.
C6_RaiseMarksNothing == L.pc = "raised" => store = L.store0

\* C6 witness: a cycle raises over a store that earlier cycles filled.
C6_Witness ==
    /\ L.pc = "raised"
    /\ store # {}
    /\ lastOutcome = "returned"

\* C7 as stated: a matching message turned away at the send limit is marked
\* seen by that cycle without a send attempt (and so is out of reach of every
\* later cycle).
C7_SkippedIsMarked ==
    /\ L.skipped \cap L.attempted = {}
    /\ L.pc = "returned" => L.skipped \subseteq StoredIds(store)

\* C7 amended: once the send limit is reached, every further unseen matching
\* message of the cycle goes to mark_processed without a send attempt, so
\* this cycle does not notify it; when that call returns the id is in the
\* store (and by C1 no later cycle notifies it); when it raises, an entry is
\* recorded and the id stays unseen.
C7_SkippedNotSent ==
    /\ L.skipped # {} => L.sent_count >= max_sends
    /\ L.skipped \cap L.attempted = {}
    /\ L.skipped \cap L.sent = {}
    /\ \A id \in L.skipped :
          \/ id \in StoredIds(store) /\ ~(L.pc = "send" /\ cur = id)
          \/ L.pc = "mark" /\ cur = id /\ L.why = "limit"
          \/ MarkRaisedFor(L, id) /\ id \notin StoredIds(store)

\* C7 witness: with a cap of one, the first matching message was sent and the
\* second was marked without a send.
C7_Witness ==
    /\ max_sends = 1
    /\ L.pc = "returned"
    /\ Cardinality(L.sent) = 1
    /\ L.skipped # {}
    /\ L.skipped \subseteq StoredIds(store)
    /\ L.failed = {}

\* C8 as stated: a message the classifier rejects is marked seen in that
\* cycle, and no send is ever attempted for it.
C8_RejectedIsMarked ==
    /\ \A id \in Ids : ~isTls[id] => id \notin L.attempted
    /\ L.pc = "returned" => L.rejected \subseteq StoredIds(store)

\* C8 amended: a message the classifier rejects goes to mark_processed with
\* no send attempt and is in the store once that call returns (when it
\* raises, an entry is recorded and the id stays unseen); no cycle, this one
\* or a later one, attempts a send for it or notifies it.
C8_RejectedNotSent ==
    /\ \A id \in Ids : ~isTls[id] =>
          /\ id \notin L.attempted
          /\ notifiedTotal[id] = 0
          /\ ~(L.pc = "send" /\ cur = id)
    /\ \A id \in L.rejected :
          \/ id \in StoredIds(store)
          \/ L.pc = "mark" /\ cur = id /\ L.why = "notTls"
          \/ MarkRaisedFor(L, id) /\ id \notin StoredIds(store)

\* C8 witness: a rejected message was fetched, not sent, and is in the store
\* when the cycle returns.
C8_Witness ==
    /\ L.pc = "returned"
    /\ \E id \in L.rejected :
          /\ id \in L.fetched
          /\ id \in StoredIds(store) \ StoredIds(L.store0)
          /\ notifiedTotal[id] = 0

\* C9: when the listed id is already in the store and has_processed answers,
\* the cycle only increments `processed` and moves on: no fetch, no
\* classification, no send, no mark; `new`, `notified`, `errors` and the
\* store stay as they were.
C9_SeenOnlyCounted ==
    [][(L.pc = "has" /\ cur \in StoredIds(store)
            /\ cyc'["loop"].failed = L.failed)
        => /\ cyc'["loop"].stats = [L.stats EXCEPT !.processed = @ + 1]
           /\ store' = store
           /\ cyc'["loop"].fetched = L.fetched
           /\ cyc'["loop"].rejected = L.rejected
           /\ cyc'["loop"].attempted = L.attempted
           /\ cyc'["loop"].sent = L.sent
           /\ cyc'["loop"].sent_count = L.sent_count
           /\ cyc'["loop"].idx = L.idx + 1
           /\ cyc'["loop"].pc \in {"has", "returned"}
           /\ notifiedTotal' = notifiedTotal]_vars

\* C9 witness: a cycle over two seen ids returned having done nothing but
\* count them.
C9_Witness ==
    /\ L.pc = "returned"
    /\ Len(L.messages) = 2
    /\ Range(L.messages) \subseteq StoredIds(L.store0)
    /\ L.stats.processed = 2
    /\ L.stats.new = 0
    /\ L.fetched = {}
    /\ store = L.store0

CycleStarted == L.pc = "init"
CycleEnded   == L.pc \in {"returned", "raised"}

\* C10: start_continuous_polling runs one cycle at once, then sleeps and runs
\* a cycle, forever: a cycle that raised is swallowed, after every cycle
\* another one starts, and the loop never ends.
C10_LoopNeverEnds ==
    /\ [][loopPc = "first" => (loopPc' = "cycle" /\ cyc'["loop"].pc = "init")]_vars
    /\ [][CycleEnded => (loopPc' = "sleep" /\ cyc'["loop"].pc = "none")]_vars
    /\ [](loopPc # "dead")
    /\ []<>CycleStarted

\* C10 witness: a cycle has started after the previous one raised.
C10_Witness ==
    /\ lastOutcome = "raised"
    /\ loopPc = "cycle"
    /\ L.pc = "init"

\* ------------------------------------------------------------- C27
SendFailures(c) == {f \in c.failed : f.op = "send"}

\* C27: a send that fails leaves the cycle's send counter and `notified` as
\* they were, so only sends that returned count against the cap; a later
\* unseen matching message of the cycle is still sent as long as fewer than
\* max_sends sends have returned.
C27_FailedSendNotCounted ==
    /\ [][(L.pc = "send" /\ SendFailures(cyc'["loop"]) # SendFailures(L)) =>
             /\ cyc'["loop"].sent_count = L.sent_count
             /\ cyc'["loop"].stats.notified = L.stats.notified
             /\ notifiedTotal' = notifiedTotal]_vars
    /\ [][(/\ L.pc = "parse"
           /\ isTls[cur]
           /\ Cardinality(L.sent) < max_sends
           /\ cyc'["loop"].failed = L.failed
           /\ cyc'["loop"] # L) =>
             /\ cyc'["loop"].pc = "send"
             /\ message_id(cyc'["loop"]) = cur]_vars
    /\ [](L.pc # "none" => /\ L.sent_count = Cardinality(L.sent)
                           /\ L.stats.notified = Cardinality(L.sent))

\* C27 witness: with a cap of one, the send for the first message failed and
\* the second was sent all the same before the cycle returned.
C27_Witness ==
    /\ max_sends = 1
    /\ L.pc = "returned"
    /\ Len(L.messages) = 2
    /\ SendFailures(L) = {[id |-> L.messages[1], op |-> "send"]}
    /\ L.sent = {L.messages[2]}
    /\ L.stats.notified = 1

\* ------------------------------------------------------------- C29
\* entries of stats.errors left by a has_processed that raised
HasProcessedErrors(c) ==
    {i \in 1..Len(c.stats.errors) : c.stats.errors[i].error = "has_processed"}

\* C29 as stated: when run_poll_cycle returns, checked is the number of
\* listed messages, new + processed = checked, notified <= new, and there
\* are at most `new` error entries.
C29_CountersAddUp ==
    L.pc = "returned" =>
        /\ L.stats.checked = Len(L.messages)
        /\ L.stats.new + L.stats.processed = L.stats.checked
        /\ L.stats.notified <= L.stats.new
        /\ Len(L.stats.errors) <= L.stats.new

\* C29: when run_poll_cycle returns, checked is the number of listed
\* messages; new + processed + the messages whose has_processed raised make
\* up checked; notified <= new; and apart from the entries of has_processed
\* there are at most `new` error entries.
C29_CountersAtReturn ==
    L.pc = "returned" =>
        /\ L.stats.checked = Len(L.messages)
        /\ L.stats.new + L.stats.processed + Cardinality(HasProcessedErrors(L))
             = L.stats.checked
        /\ L.stats.notified <= L.stats.new
        /\ Len(L.stats.errors) - Cardinality(HasProcessedErrors(L)) <= L.stats.new
        /\ Len(L.stats.errors) <= L.stats.checked - L.stats.processed

\* C29 witness: a cycle over two messages returned after has_processed raised
\* for one and the other was sent.
C29_Witness ==
    /\ L.pc = "returned"
    /\ L.stats.checked = 2
    /\ Cardinality(HasProcessedErrors(L)) = 1
    /\ L.stats.new = 1
    /\ L.stats.notified = 1
    /\ L.stats.processed = 0

\* ================================================== overlapping cycles
\* main.py: the polling loop is one task of the event loop and every /poll
\* request is another; each awaits run_poll_cycle and nothing serializes them.

\* a coroutine gives up the event loop only where it really waits: between
\* cycles, and in the HTTP post of send_message (the Gmail calls block)
Suspended(q) == cyc[q].pc \in {"none", "send"}

MayRun(p) == \A q \in Procs \ {p} : Suspended(q)

\* poll_get / poll_post: `stats = await run_poll_cycle()`
PollRequest ==
    /\ cyc["poll"].pc = "none"
    /\ cyc' = [cyc EXCEPT !["poll"] = EnterCycle(store)]
    /\ UNCHANGED <<store, storage_impl, now, conf, loopPc, hist>>

\* poll_get / poll_post: the stats, or the error, go into the response
PollRespond ==
    /\ cyc["poll"].pc \in {"returned", "raised"}
    /\ cyc' = [cyc EXCEPT !["poll"] = NoCycle]
    /\ UNCHANGED <<store, storage_impl, now, conf, loopPc, hist>>

\* a call into Gmail, Telegram or SQLite failed for a reason of its own
EnvFault(c) ==
    \/ c.pc = "raised"
    \/ \E f \in c.failed : f.op # "IntegrityError"

\* a step of p: the others are all suspended, and the overlap is examined
\* with every outside call succeeding, so that an error entry can only come
\* from the other cycle's doing
Turn(p, A) ==
    /\ MayRun(p)
    /\ A
    /\ \A q \in Procs : ~EnvFault(cyc'[q])

OverlapNext ==
    \/ Turn("loop", RunInitial)
    \/ Turn("loop", SleepThenRun)
    \/ Turn("loop", CycleReturned)
    \/ Turn("poll", PollRequest)
    \/ Turn("poll", PollRespond)
    \/ \E p \in Procs : Turn(p, InitClients(p))
    \/ \E p \in Procs : Turn(p, ListMessages(p))
    \/ \E p \in Procs : Turn(p, HasProcessed(p))
    \/ \E p \in Procs : Turn(p, GetMessage(p))
    \/ \E p \in Procs : Turn(p, ParseMessage(p))
    \/ \E p \in Procs : Turn(p, SendNotification(p))
    \/ \E p \in Procs : Turn(p, MarkProcessed(p))

OverlapSpec == Init /\ [][OverlapNext]_vars

P    == cyc["poll"]
curP == message_id(P)

InProgress(c) == c.pc # "none"

\* C11 as stated: no two poll cycles are in progress at the same time on the
\* same dedup store, whether the loop or a /poll request started them.
C11_NoOverlap == ~(InProgress(L) /\ InProgress(P))

RowsFor(st, id) == {r \in st : r.message_id = id}

\* C12: when two cycles overlap on the same unseen matching id both may send
\* for it, yet the second mark_processed is no error for either cycle and the
\* store holds exactly one record for the id.
C12_OverlapToleratesDuplicate ==
    /\ \A id \in Ids : Cardinality(RowsFor(store, id)) <= 1
    /\ \A p \in Procs :
          /\ cyc[p].failed = {}
          /\ cyc[p].stats.errors = <<>>
          /\ cyc[p].pc # "raised"
    /\ \A p \in Procs : \A id \in cyc[p].sent :
          \/ Cardinality(RowsFor(store, id)) = 1
          \/ cyc[p].pc = "mark" /\ message_id(cyc[p]) = id

\* C12 witness: the /poll cycle returns without an error after sending for an
\* id that the loop's cycle sent for and marked while that send was in flight.
C12_Witness ==
    /\ P.pc = "returned"
    /\ P.stats.errors = <<>>
    /\ \E id \in P.sent :
          /\ id \notin StoredIds(P.store0)
          /\ notifiedTotal[id] = 2
          /\ Cardinality(RowsFor(store, id)) = 1

\* ================================================== storage.py on its own
\* The module functions of storage.py called directly, with the clock moving
\* between the calls.

\* what the storage calls leave alone
storeFrame == <<max_sends, isTls, loopPc, hist, cyc, retry, limiter, mail,
                query>>

\* init_storage (lines 66-77)
StoreOpen ==
    /\ ~storage_impl
    /\ storage_impl' = TRUE
    /\ UNCHANGED <<store, now, lastOp, storeFrame>>

\* a day goes by
Tick ==
    /\ now < MaxDays * SecondsPerDay
    /\ now' = now + SecondsPerDay
    /\ UNCHANGED <<store, storage_impl, lastOp, storeFrame>>

\* mark_processed(message_id) (lines 84-87, 40-48)
StoreMark(id) ==
    LET call == [name |-> "mark_processed", id |-> id, days |-> 0, at |-> now,
                 before |-> store, raised |-> "none", ret |-> None]
    IN  /\ IF ~storage_impl
           THEN /\ lastOp' = [call EXCEPT !.raised = "RuntimeError"]
                /\ UNCHANGED store
           ELSE IF InsertConflicts(store, id)
           THEN /\ lastOp' = [call EXCEPT !.raised = "IntegrityError"]
                /\ UNCHANGED store
           ELSE /\ lastOp' = call
                /\ store' = mark_processed(store, id, Millis(now))
        /\ UNCHANGED <<storage_impl, now, storeFrame>>

\* cleanup(older_than_days) (lines 89-91, 50-57)
StoreCleanup(days) ==
    LET call == [name |-> "cleanup", id |-> 0, days |-> days, at |-> now,
                 before |-> store, raised |-> "none", ret |-> None]
    IN  /\ IF storage_impl
           THEN /\ store' = cleanup_Kept(store, days, now)
                /\ lastOp' = [call EXCEPT !.ret = cleanup_Result(store, days, now)]
           ELSE /\ UNCHANGED store
                /\ lastOp' = call
        /\ UNCHANGED <<storage_impl, now, storeFrame>>

StoreInit ==
    /\ store = {}
    /\ now = 0
    /\ CycleIdle
    /\ AsideIdle

StoreNext ==
    \/ StoreOpen
    \/ Tick
    \/ \E id \in Ids : StoreMark(id)
    \/ \E days \in 0..MaxDays : StoreCleanup(days)

StoreSpec == StoreInit /\ [][StoreNext]_vars

\* C13: mark_processed is idempotent and first-write-wins: marking an id that
\* is already stored leaves its record, processed_at included, as it was and
\* raises nothing (a first mark records the current epoch milliseconds), so
\* there is never more than one record per id.
C13_MarkFirstWriteWins ==
    /\ \A id \in Ids : Cardinality(RowsFor(store, id)) <= 1
    /\ lastOp.name = "mark_processed" =>
          IF lastOp.id \in StoredIds(lastOp.before)
          THEN /\ store = lastOp.before
               /\ lastOp.raised = "none"
          ELSE \/ lastOp.raised = "RuntimeError" /\ store = lastOp.before
               \/ /\ lastOp.raised = "none"
                  /\ store = lastOp.before \cup
                        {[message_id |-> lastOp.id,
                          processed_at |-> lastOp.at * 1000]}

\* C13 witness: an id marked on an earlier day has just been marked again,
\* next to another record.
C13_Witness ==
    /\ lastOp.name = "mark_processed"
    /\ \E r \in lastOp.before :
          /\ r.message_id = lastOp.id
          /\ r.processed_at < lastOp.at * 1000
    /\ \E r \in store : r.message_id # lastOp.id

\* the records a cleanup call had to delete: processed_at earlier than the
\* call's time minus older_than_days, in epoch milliseconds
Expired(op) ==
    {r \in op.before : r.processed_at < (op.at - op.days * 24 * 60 * 60) * 1000}

\* C14 as stated: cleanup(older_than_days) deletes exactly the records whose
\* processed_at is earlier than now minus older_than_days, leaves the others
\* unchanged, and returns the number of records it removed.
C14_CleanupReturnsCount ==
    lastOp.name = "cleanup" =>
        /\ store = lastOp.before \ Expired(lastOp)
        /\ lastOp.ret = Returned(Cardinality(Expired(lastOp)))

\* the deleting half of C14 alone: exactly the expired records go
C14_CleanupDeletesExpired ==
    lastOp.name = "cleanup" => store = lastOp.before \ Expired(lastOp)

\* a cleanup that removed one record and kept another
C14_Reached ==
    /\ lastOp.name = "cleanup"
    /\ Expired(lastOp) # {}
    /\ store # {}

\* ================================================================ text
\* A Python str is the sequence of its characters.
UpperCase == <<"A", "B", "C", "D", "E", "F", "G", "H", "I", "J", "K", "L", "M", "N", "O", "P", "Q", "R", "S", "T", "U", "V", "W", "X", "Y", "Z">>
LowerCase == <<"a", "b", "c", "d", "e", "f", "g", "h", "i", "j", "k", "l", "m", "n", "o", "p", "q", "r", "s", "t", "u", "v", "w", "x", "y", "z">>

lower_char(c) ==
    IF \E i \in 1..Len(UpperCase) : UpperCase[i] = c
    THEN LowerCase[CHOOSE i \in 1..Len(UpperCase) : UpperCase[i] = c]
    ELSE c

\* str.lower()
lower(s) == [i \in 1..Len(s) |-> lower_char(s[i])]

\* `pat in s`, and re.search of a pattern without operators
Contains(s, pat) ==
    \E i \in 1..(Len(s) - Len(pat) + 1) : SubSeq(s, i, i + Len(pat) - 1) = pat

\* ===================================================== retry_with_backoff
InitialDelay  == 1000
MaxDelay      == 30000
BackoffFactor == 2

\* what one `await fn()` can do: return the response, or raise one of these
\* (status 0: the exception carries no response)
Response == [ok |-> TRUE, msg |-> <<>>, status |-> 200]

Errors ==
    { [ok |-> FALSE, msg |-> <<"T", "i", "m", "e", "o", "u", "t">>,           status |-> 0],
      [ok |-> FALSE, msg |-> <<"t", "i", "m", "e", "d", " ", "o", "u", "t">>,         status |-> 0],
      [ok |-> FALSE, msg |-> <<"B", "a", "d", " ", "R", "e", "q", "u", "e", "s", "t">>,       status |-> 400],
      [ok |-> FALSE, msg |-> <<"T", "o", "o", " ", "M", "a", "n", "y", " ", "R", "e", "q", "u", "e", "s", "t", "s">>, status |-> 429],
      [ok |-> FALSE, msg |-> <<"E", "C", "O", "N", "N", "R", "E", "S", "E", "T">>,        status |-> 0] }

transient_keywords ==
    { <<"t", "i", "m", "e", "o", "u", "t">>, <<"n", "e", "t", "w", "o", "r", "k">>, <<"c", "o", "n", "n", "e", "c", "t", "i", "o", "n", " ", "r", "e", "s", "e", "t">>, <<"s", "o", "c", "k", "e", "t", " ", "h", "a", "n", "g", " ", "u", "p">>,
      <<"e", "c", "o", "n", "n", "r", "e", "f", "u", "s", "e", "d">>, <<"e", "n", "o", "t", "f", "o", "u", "n", "d">>, <<"e", "t", "i", "m", "e", "d", "o", "u", "t">>, <<"e", "c", "o", "n", "n", "r", "e", "s", "e", "t">> }

is_transient_error(error) ==
    LET msg == lower(error.msg)
    IN  \/ \E keyword \in transient_keywords : Contains(msg, keyword)
        \/ error.status \in {429, 500, 502, 503, 504}

\* the should_retry argument: is_transient_error from send_message, or the
\* default `lambda e: True`
Classifiers == {"is_transient_error", "default"}

should_retry(f, e) ==
    IF f.classifier = "is_transient_error" THEN is_transient_error(e) ELSE TRUE

\* variant: the classifier is not consulted
GivesUp_Unclassified(f, e) == f.attempt = f.max_retries

\* variant: the attempt count is compared one too late
GivesUp_OneMore(f, e) == f.attempt = f.max_retries + 1 \/ ~should_retry(f, e)

\* line 50: `if attempt == max_retries or not should_retry(e)`
GivesUp(f, e) == f.attempt = f.max_retries \/ ~should_retry(f, e)

NoOutcome == [ok |-> FALSE, msg |-> <<>>, status |-> -1]

\* what the retry calls leave alone
retryFrame == <<store, storage_impl, now, max_sends, isTls, loopPc, hist, cyc,
                lastOp, limiter, mail, query>>

\* initial_delay, max_delay and backoff_factor of a call: the defaults, a cap
\* reached by the second delay, a first delay above the cap, and factors
\* that do not grow
DelaySettings ==
    { [initial_delay |-> InitialDelay, max_delay |-> MaxDelay,
       backoff_factor |-> BackoffFactor],
      [initial_delay |-> InitialDelay, max_delay |-> InitialDelay + 500,
       backoff_factor |-> BackoffFactor],
      [initial_delay |-> 2 * MaxDelay, max_delay |-> MaxDelay,
       backoff_factor |-> BackoffFactor],
      [initial_delay |-> InitialDelay, max_delay |-> MaxDelay,
       backoff_factor |-> 1],
      [initial_delay |-> InitialDelay, max_delay |-> MaxDelay,
       backoff_factor |-> 0] }

\* lines 41-44: the call, up to the first iteration
RetryCall ==
    /\ retry.pc = "none"
    /\ \E mr \in 0..MaxRetries, cl \in Classifiers, ds \in DelaySettings :
          retry' = [pc |-> "try", max_retries |-> mr, classifier |-> cl,
                    initial_delay |-> ds.initial_delay,
                    max_delay |-> ds.max_delay,
                    backoff_factor |-> ds.backoff_factor,
                    attempt |-> 0, delay |-> ds.initial_delay,
                    tries |-> <<>>, sleeps |-> <<>>,
                    last_error |-> NoOutcome, out |-> NoOutcome]
    /\ UNCHANGED retryFrame

\* lines 45-51: one `await fn()`, and the handler when it raises
RetryAttempt ==
    /\ retry.pc = "try"
    /\ \/ retry' = [retry EXCEPT !.tries = Append(@, Response),
                                 !.out = Response, !.pc = "returned"]
       \/ \E e \in Errors :
             retry' = [retry EXCEPT
                          !.tries = Append(@, e),
                          !.last_error = e,
                          !.out = IF GivesUp(retry, e) THEN e ELSE @,
                          !.pc = IF GivesUp(retry, e) THEN "raised" ELSE "sleep"]
    /\ UNCHANGED retryFrame

\* lines 56-57: sleep(delay), the next delay, and the next iteration
RetrySleep ==
    /\ retry.pc = "sleep"
    /\ retry' = [retry EXCEPT !.sleeps = Append(@, retry.delay),
                              !.delay = Min(retry.delay * retry.backoff_factor,
                                            retry.max_delay),
                              !.attempt = @ + 1,
                              !.pc = "try"]
    /\ UNCHANGED retryFrame

\* the caller has the result or the exception
RetryDone ==
    /\ retry.pc \in {"returned", "raised"}
    /\ retry' = [pc |-> "none"]
    /\ UNCHANGED retryFrame

RetryInit ==
    /\ store = {}
    /\ now = 0
    /\ CycleIdle
    /\ AsideIdle

RetryNext ==
    \/ RetryCall
    \/ RetryAttempt
    \/ RetrySleep
    \/ RetryDone

RetrySpec == RetryInit /\ [][RetryNext]_vars

\* fn() and the sleeps come back, and the caller goes on
RetryLiveSpec == RetrySpec /\ WF_vars(RetryNext)

\* what the call's classifier says of a failure
Transient(f, e) == f.classifier = "default" \/ is_transient_error(e)

\* C15: retry_with_backoff invokes the operation again only after a failure
\* its classifier calls transient; a failure it does not call transient is
\* raised at once: that attempt is the last, no sleep follows it, and when it
\* is the first failure there was exactly one attempt and no sleep at all.
C15_RetryOnlyTransient ==
    retry.pc # "none" =>
        /\ \A i \in 2..Len(retry.tries) :
              /\ ~retry.tries[i - 1].ok
              /\ Transient(retry, retry.tries[i - 1])
              /\ Len(retry.sleeps) >= i - 1
        /\ \A i \in 1..Len(retry.tries) :
              (~retry.tries[i].ok /\ ~Transient(retry, retry.tries[i])) =>
                  /\ i = Len(retry.tries)
                  /\ retry.pc = "raised"
                  /\ retry.out = retry.tries[i]
                  /\ Len(retry.sleeps) = i - 1

\* C15 witness: the first attempt failed with an error that is not
\* transient although retries were left, and the call has raised it.
C15_Witness ==
    /\ retry.pc = "raised"
    /\ retry.classifier = "is_transient_error"
    /\ retry.max_retries > 0
    /\ Len(retry.tries) = 1
    /\ retry.tries[1].status = 400
    /\ retry.sleeps = <<>>

\* C16: retry_with_backoff ends after at most max_retries + 1 invocations: it
\* returns the result of the first attempt that succeeds, or raises the error
\* of the last attempt once they are used up, transient or not.
C16_RetryBounded ==
    /\ [](retry.pc # "none" =>
            /\ Len(retry.tries) <= retry.max_retries + 1
            /\ \A i \in 1..Len(retry.tries) :
                  retry.tries[i].ok => (i = Len(retry.tries) /\ retry.pc = "returned")
            /\ retry.pc = "returned" =>
                  /\ retry.tries # <<>>
                  /\ retry.out = retry.tries[Len(retry.tries)]
                  /\ retry.out.ok
            /\ retry.pc = "raised" =>
                  /\ retry.tries # <<>>
                  /\ retry.out = retry.tries[Len(retry.tries)]
                  /\ ~retry.out.ok
            /\ (Len(retry.tries) = retry.max_retries + 1) =>
                  retry.pc \in {"returned", "raised"})
    /\ (retry.pc = "try") ~> (retry.pc \in {"returned", "raised"})

\* C16 witness: every attempt failed with a transient error and the call has
\* raised after max_retries + 1 of them.
C16_Witness ==
    /\ retry.pc = "raised"
    /\ retry.max_retries = MaxRetries
    /\ Len(retry.tries) = retry.max_retries + 1
    /\ \A i \in 1..Len(retry.tries) : is_transient_error(retry.tries[i])
    /\ Len(retry.sleeps) = retry.max_retries

\* ============================================================ RateLimiter
\* Token counts are kept in tenths of a token, times in seconds, so that the
\* refill rate of 0.1 tokens per second is one tenth per second.
RefillRate == 1

\* n tokens, in tenths
Tokens(n) == n * 10

Callers == Procs

\* _refill (lines 108-114) at time t
refill(l, t) ==
    [l EXCEPT !.tokens = Min(l.max_tokens, l.tokens + (t - l.last_refill) * RefillRate),
              !.last_refill = t]

\* variant: the bucket must hold more than is asked for
CanTake_Strict(l, n) == l.tokens > Tokens(n)

\* line 96: `if self.tokens >= tokens`
CanTake(l, n) == l.tokens >= Tokens(n)

\* lines 101-102: tokens_needed / refill_rate, in seconds
wait_time(l, n) == (Tokens(n) - l.tokens) \div RefillRate

\* variant: the waiter takes only what the bucket holds
take_Clamped(l, n) == [l EXCEPT !.tokens = IF @ >= Tokens(n) THEN @ - Tokens(n) ELSE 0]

\* `self.tokens -= tokens` (lines 97 and 106)
take(l, n) == [l EXCEPT !.tokens = @ - Tokens(n)]

\* a caller's frame of acquire, with what it has done so far
Outside == [pc |-> "outside", n |-> 0, entered |-> 0, seen |-> 0,
            wait |-> 0, suspensions |-> 0, deductions |-> 0,
            at |-> 0, had |-> 0, left |-> 0]

\* what the rate limiter leaves alone
limiterFrame == <<store, storage_impl, max_sends, isTls, loopPc, hist, cyc,
                  lastOp, retry, mail, query>>

\* variant: the bucket starts empty
RateLimiter_Empty(cap, t) ==
    [pc |-> "live", max_tokens |-> Tokens(cap), tokens |-> 0,
     last_refill |-> t, in |-> [c \in Callers |-> Outside]]

\* __init__ (lines 87-91): the bucket starts full
RateLimiter(cap, t) ==
    [pc |-> "live", max_tokens |-> Tokens(cap), tokens |-> Tokens(cap),
     last_refill |-> t, in |-> [c \in Callers |-> Outside]]

\* init_telegram_client (notifier.py lines 23-25): RateLimiter(float(max_sends), 0.1)
LimiterCreate ==
    /\ limiter.pc = "none"
    /\ \E cap \in 0..MaxCap : limiter' = RateLimiter(cap, now)
    /\ UNCHANGED <<now, limiterFrame>>

LimiterTick ==
    /\ now < MaxTicks * TickSeconds
    /\ now' = now + TickSeconds
    /\ UNCHANGED <<limiter, limiterFrame>>

\* acquire, lines 94-104: up to the return, or up to the sleep
AcquireEnter(c, n) ==
    /\ limiter.pc = "live"
    /\ limiter.in[c].pc = "outside"
    /\ LET l    == refill(limiter, now)
           mine == [Outside EXCEPT !.n = n, !.entered = now, !.seen = l.tokens]
       IN  IF CanTake(l, n)
           THEN limiter' = [take(l, n) EXCEPT
                               !.in[c] = [mine EXCEPT !.pc = "returned",
                                                      !.deductions = 1,
                                                      !.at = now,
                                                      !.had = l.tokens,
                                                      !.left = take(l, n).tokens]]
           ELSE limiter' = [l EXCEPT
                               !.in[c] = [mine EXCEPT !.pc = "sleeping",
                                                      !.suspensions = 1,
                                                      !.wait = wait_time(l, n)]]
    /\ UNCHANGED <<now, limiterFrame>>

\* acquire, lines 104-106: the sleep is over (not before its time)
AcquireWake(c) ==
    /\ limiter.pc = "live"
    /\ limiter.in[c].pc = "sleeping"
    /\ now >= limiter.in[c].entered + limiter.in[c].wait
    /\ LET l == refill(limiter, now)
       IN  limiter' = [take(l, limiter.in[c].n) EXCEPT
                          !.in[c].pc = "returned",
                          !.in[c].deductions = @ + 1,
                          !.in[c].at = now,
                          !.in[c].had = l.tokens,
                          !.in[c].left = take(l, limiter.in[c].n).tokens]
    /\ UNCHANGED <<now, limiterFrame>>

\* the caller goes on (send_message, line 42)
AcquireLeave(c) ==
    /\ limiter.pc = "live"
    /\ limiter.in[c].pc = "returned"
    /\ limiter' = [limiter EXCEPT !.in[c] = Outside]
    /\ UNCHANGED <<now, limiterFrame>>

LimiterInit ==
    /\ store = {}
    /\ now = 0
    /\ CycleIdle
    /\ AsideIdle

LimiterNext ==
    \/ LimiterCreate
    \/ LimiterTick
    \/ \E c \in Callers, n \in 1..MaxTokens : AcquireEnter(c, n)
    \/ \E c \in Callers : AcquireWake(c)
    \/ \E c \in Callers : AcquireLeave(c)

LimiterSpec == LimiterInit /\ [][LimiterNext]_vars

\* C17: acquire(n) deducts n at once, without suspending, when the refilled
\* bucket holds at least n; otherwise it suspends once, for
\* (n - tokens)/refill_rate seconds, and deducts n afterwards; every call
\* that has returned deducted exactly n, exactly once. (Tenths of a token:
\* at 0.1 tokens per second a tenth takes a second.)
C17_AcquireDeductsOnce ==
    limiter.pc = "live" =>
        \A c \in Callers :
            LET a == limiter.in[c]
            IN  /\ a.pc = "returned" =>
                      /\ a.deductions = 1
                      /\ a.left = a.had - a.n * 10
                      /\ IF a.seen >= a.n * 10
                         THEN a.suspensions = 0 /\ a.at = a.entered /\ a.had = a.seen
                         ELSE /\ a.suspensions = 1
                              /\ a.wait = a.n * 10 - a.seen
                              /\ a.at >= a.entered + a.wait
                /\ a.pc = "sleeping" =>
                      /\ a.seen < a.n * 10
                      /\ a.deductions = 0
                      /\ a.suspensions = 1
                      /\ a.wait = a.n * 10 - a.seen

\* C17 witness: one caller took its token at once, the other found the
\* bucket short, slept, and has deducted its token too.
C17_Witness ==
    /\ limiter.pc = "live"
    /\ limiter.in["loop"].pc = "returned"
    /\ limiter.in["loop"].suspensions = 0
    /\ limiter.in["poll"].pc = "returned"
    /\ limiter.in["poll"].suspensions = 1
    /\ limiter.in["poll"].deductions = 1
    /\ limiter.in["poll"].wait > 0

\* ============================================================== parser.py
\* parse_message on messages whose fields are put together from a few words.

Space == <<" ">>

RECURSIVE Join(_)
\* ' '.join(ws)
Join(ws) ==
    IF Len(ws) = 0 THEN <<>>
    ELSE IF Len(ws) = 1 THEN ws[1]
    ELSE ws[1] \o Space \o Join(Tail(ws))

Words ==
    { <<"N", "e", "w", "s", "l", "e", "t", "t", "e", "r">>, <<"a", "d", "v", "i", "s", "a", "b", "l", "e">>, <<"h", "t", "t", "p", "s", ":", "/", "/", "e", "x", "a", "m", "p", "l", "e", ".", "c", "o", "m", "/", "a">>,
      <<"v", "i", "s", "a">>, <<"V", "I", "S", "A">>, <<"R", "e", "n", "d", "e", "z", "-", "v", "o", "u", "s">>, <<"r", "e", "n", "d", "e", "z", "v", "o", "u", "s">>, <<"R", "D", "V">>,
      <<"a", "p", "p", "o", "i", "n", "t", "m", "e", "n", "t">>, <<"c", "o", "n", "f", "i", "r", "m", "e", "r">>, <<"C", "o", "n", "f", "i", "r", "m", "e", "d">>, <<"c", "o", "n", "f", "i", "r", "m", "a", "t", "i", "o", "n">>,
      <<"t", "l", "s", "c", "o", "n", "t", "a", "c", "t">>, <<"T", "L", "S", "-", "C", "o", "n", "t", "a", "c", "t">> }

Texts == {Join(ws) : ws \in UNION {[1..n -> Words] : n \in 0..MaxWords}}

\* a field without any keyword; '' is also what message.get gives for a
\* missing key
Fillers == { <<>>, <<"M", "o", "n", "t", "h", "l", "y", " ", "u", "p", "d", "a", "t", "e", "s">> }

Senders ==
    { <<"n", "o", "r", "e", "p", "l", "y", "@", "e", "x", "a", "m", "p", "l", "e", ".", "c", "o", "m">>, <<"t", "l", "s", "c", "o", "n", "t", "a", "c", "t", "@", "e", "x", "a", "m", "p", "l", "e", ".", "c", "o", "m">>,
      <<"i", "n", "f", "o", "@", "t", "l", "s", "c", "o", "n", "t", "a", "c", "t", "-", "m", "a", "i", "l", ".", "c", "o", "m">>, <<"n", "o", "r", "e", "p", "l", "y", "@", "t", "l", "s", "c", "o", "n", "t", "a", "c", "t", ".", "c", "o", "m">>,
      <<"v", "i", "s", "a", "@", "T", "L", "S", "-", "C", "o", "n", "t", "a", "c", "t", ".", "c", "o", "m">>, <<"n", "o", "r", "e", "p", "l", "y", "@", "t", "l", "s", "v", "i", "s", "a", ".", "c", "o", "m">>,
      <<"i", "n", "f", "o", "@", "t", "l", "s", "-", "c", "o", "n", "t", "a", "c", "t", ".", "f", "r">> }

Fields == {"subject", "snippet", "body"}

\* TLS_DOMAIN_REGEX (line 9), re.IGNORECASE
TLS_DOMAIN_REGEX == { <<"@", "t", "l", "s", "c", "o", "n", "t", "a", "c", "t", ".">>, <<"@", "t", "l", "s", "-", "c", "o", "n", "t", "a", "c", "t", ".">>, <<"@", "t", "l", "s", "v", "i", "s", "a", ".">> }

\* the pattern written out at line 39, re.IGNORECASE (KEYWORD_REGEX of lines
\* 12-15 is compiled and used nowhere)
InlineKeywords ==
    { <<"r", "e", "n", "d", "e", "z", "-", "v", "o", "u", "s">>, <<"r", "e", "n", "d", "e", "z", "v", "o", "u", "s">>, <<"r", "d", "v">>, <<"v", "i", "s", "a">>, <<"t", "l", "s", "c", "o", "n", "t", "a", "c", "t">>,
      <<"t", "l", "s", "-", "c", "o", "n", "t", "a", "c", "t">> }

\* re.search of an alternation of plain strings, ignoring case
Search(alternatives, s) == \E a \in alternatives : Contains(lower(s), a)

\* line 35
is_tls_domain(sender) == Search(TLS_DOMAIN_REGEX, sender)

\* lines 38-39
has_keyword(subject, snippet, rawBody) ==
    Search(InlineKeywords, subject \o Space \o snippet \o Space \o rawBody)

\* variant: only the keywords decide
Classified_KeywordOnly(d, k) == k

\* line 41: `is_tls_domain or has_keyword`
Classified(d, k) == d \/ k

\* variant: no early return for a message that is not classified
Extracts_Always(tls) == TRUE

\* lines 43-45: extraction only for a classified message
Extracts(tls) == tls

\* ---------------------------------------------------------- extract_date
Whitespace == {" ", "\n", "\t"}
Digits == {"0", "1", "2", "3", "4", "5", "6", "7", "8", "9"}

RECURSIVE lstrip(_)
lstrip(s) == IF s # <<>> /\ s[1] \in Whitespace THEN lstrip(Tail(s)) ELSE s

RECURSIVE rstrip(_)
rstrip(s) ==
    IF s # <<>> /\ s[Len(s)] \in Whitespace THEN rstrip(SubSeq(s, 1, Len(s) - 1)) ELSE s

\* str.strip()
strip(s) == rstrip(lstrip(s))

\* the first index >= i of s that holds a character of `stops`, or Len(s) + 1
IndexFrom(s, stops, i) ==
    IF \E j \in i..Len(s) : s[j] \in stops
    THEN CHOOSE j \in i..Len(s) :
             s[j] \in stops /\ \A k \in i..(j - 1) : s[k] \notin stops
    ELSE Len(s) + 1

RECURSIVE split_lines(_)
\* str.split('\n')
split_lines(s) ==
    LET j == IndexFrom(s, {"\n"}, 1)
    IN  IF j > Len(s) THEN <<s>>
        ELSE <<SubSeq(s, 1, j - 1)>> \o split_lines(SubSeq(s, j + 1, Len(s)))

\* str.isdigit()
isdigit(s) == s # <<>> /\ \A i \in 1..Len(s) : s[i] \in Digits

\* lines 82-90: the lines the natural-language pass hands to dateparser
date_lines(body, subject, snippet) ==
    LET combined_text == subject \o <<"\n">> \o snippet \o <<"\n">> \o body
        lines == split_lines(combined_text)
        stripped == [i \in 1..Len(lines) |-> strip(lines[i])]
    IN  {stripped[i] : i \in {k \in 1..Len(lines) :
                                 /\ stripped[k] # <<>>
                                 /\ ~(Len(stripped[k]) < 5 \/ isdigit(stripped[k]))}}

\* the datetime dateparser comes up with, through format_date_iso
SomeDate == "2030-01-15T10:00:00"

\* extract_date (lines 66-113) on text without a numeric date: dateparser
\* may make a date of any of the lines, or of none; the line is the source
DateFinds(message) ==
    {None} \cup
    {Returned([date |-> SomeDate, raw |-> line]) :
        line \in date_lines(message.body, message.subject, message.snippet)}

\* ---------------------------------------------------------- extract_link
StartsWith(s, prefix) ==
    Len(s) >= Len(prefix) /\ SubSeq(s, 1, Len(prefix)) = prefix

\* an anchor as the messages here write it
AnchorOpen == <<"<", "a", " ", "h", "r", "e", "f", "=", "\"">>

RECURSIVE hrefs_from(_, _)
\* soup.find_all('a', href=True), in document order (lines 121-125)
hrefs_from(s, i) ==
    IF i + Len(AnchorOpen) - 1 > Len(s) THEN <<>>
    ELSE IF SubSeq(s, i, i + Len(AnchorOpen) - 1) = AnchorOpen
    THEN LET j == IndexFrom(s, {"\""}, i + Len(AnchorOpen))
         IN  <<SubSeq(s, i + Len(AnchorOpen), j - 1)>> \o hrefs_from(s, j + 1)
    ELSE hrefs_from(s, i + 1)

\* lines 126-127: href.startswith('http')
IsHttp(href) == StartsWith(href, <<"h", "t", "t", "p">>)

\* r'tlscontact|confirm', re.IGNORECASE (lines 131 and 151)
LinkPreference == { <<"t", "l", "s", "c", "o", "n", "t", "a", "c", "t">>, <<"c", "o", "n", "f", "i", "r", "m">> }

\* variant: the first link, whatever it holds
prefer_First(links) == links[1]

\* lines 130-137 and 150-155: the first preferred link, else the first link
prefer(links) ==
    IF \E i \in 1..Len(links) : Search(LinkPreference, links[i])
    THEN links[CHOOSE i \in 1..Len(links) :
                   /\ Search(LinkPreference, links[i])
                   /\ \A k \in 1..(i - 1) : ~Search(LinkPreference, links[k])]
    ELSE links[1]

\* the characters the class [^\s"<>|)] shuts out
UrlStops == Whitespace \cup {"\"", "<", ">", "|", ")"}

\* the length of `https://` or `http://` at index i of s, in any case; else 0
SchemeAt(s, i) ==
    IF i + 7 <= Len(s) /\ lower(SubSeq(s, i, i + 7)) = <<"h", "t", "t", "p", "s", ":", "/", "/">> THEN 8
    ELSE IF i + 6 <= Len(s) /\ lower(SubSeq(s, i, i + 6)) = <<"h", "t", "t", "p", ":", "/", "/">> THEN 7
    ELSE 0

RECURSIVE url_findall(_, _)
\* url_regex.findall(body) (lines 143-144)
url_findall(s, i) ==
    IF i > Len(s) THEN <<>>
    ELSE LET n    == SchemeAt(s, i)
             stop == IndexFrom(s, UrlStops, i + n)
         IN  IF n > 0 /\ stop > i + n
             THEN <<SubSeq(s, i, stop - 1)>> \o url_findall(s, stop)
             ELSE url_findall(s, i + 1)

TrailingPunctuation == {".", "!", "?", ",", ";", ":"}

RECURSIVE strip_punctuation(_)
\* re.sub(r'[.!?,;:]+$', '', url) (line 148)
strip_punctuation(url) ==
    IF url # <<>> /\ url[Len(url)] \in TrailingPunctuation
    THEN strip_punctuation(SubSeq(url, 1, Len(url) - 1))
    ELSE url

\* extract_link (lines 115-157)
extract_link(body) ==
    IF body = <<>> THEN None
    ELSE LET links   == SelectSeq(hrefs_from(body, 1), IsHttp)
             matches == url_findall(body, 1)
             cleaned_matches ==
                 [i \in 1..Len(matches) |-> strip_punctuation(matches[i])]
         IN  IF links # <<>> THEN Returned(prefer(links))
             ELSE IF matches # <<>> THEN Returned(prefer(cleaned_matches))
             ELSE None

\* parse_message (lines 20-64); `dated` stands for what extract_date finds.
\* The key 'labels' is read with a default of [] and is [] here until set.
parse_message(message, dated) ==
    LET result == [isTls |-> FALSE, parsed |-> FALSE, date |-> None,
                   dateRaw |-> None, link |-> None,
                   from |-> message.from, subject |-> message.subject,
                   snippet |-> message.snippet, rawBody |-> message.body,
                   labels |-> {}]
        tls == Classified(is_tls_domain(result.from),
                          has_keyword(result.subject, result.snippet, result.rawBody))
    IN  IF ~Extracts(tls)
        THEN [result EXCEPT !.isTls = tls]
        ELSE [result EXCEPT
                 !.isTls = tls,
                 !.labels = message.labelIds,
                 !.parsed = dated # None,
                 !.date = {d.date : d \in dated},
                 !.dateRaw = {d.raw : d \in dated},
                 !.link = extract_link(result.rawBody)]

\* what the parser leaves alone
parserFrame == <<store, storage_impl, now, max_sends, isTls, loopPc, hist, cyc,
                 lastOp, retry, limiter, query>>

\* get_message hands over a message: one field carries the text
Receive ==
    /\ mail.pc = "none"
    /\ \E sender \in Senders, where \in Fields, t \in Texts, f \in Fillers :
          mail' = [pc |-> "received",
                   msg |-> [from |-> sender,
                            subject |-> IF where = "subject" THEN t ELSE f,
                            snippet |-> IF where = "snippet" THEN t ELSE f,
                            body |-> IF where = "body" THEN t ELSE f,
                            labelIds |-> {"INBOX"}]]
    /\ UNCHANGED parserFrame

\* parsed = parse_message(full_message) (watcher.py line 82)
Parse ==
    /\ mail.pc = "received"
    /\ \E dated \in DateFinds(mail.msg) :
          mail' = [pc |-> "parsed", msg |-> mail.msg,
                   result |-> parse_message(mail.msg, dated)]
    /\ UNCHANGED parserFrame

\* on to the next message
Forget ==
    /\ mail.pc = "parsed"
    /\ mail' = [pc |-> "none"]
    /\ UNCHANGED parserFrame

ParserInit ==
    /\ store = {}
    /\ now = 0
    /\ CycleIdle
    /\ AsideIdle

ParserNext ==
    \/ Receive
    \/ Parse
    \/ Forget

ParserSpec == ParserInit /\ [][ParserNext]_vars

\* the sender address holds one of the organization's domain variants
SenderMatches(m) ==
    \E v \in { <<"@", "t", "l", "s", "c", "o", "n", "t", "a", "c", "t", ".">>, <<"@", "t", "l", "s", "-", "c", "o", "n", "t", "a", "c", "t", ".">>, <<"@", "t", "l", "s", "v", "i", "s", "a", ".">> } :
        Contains(lower(m.from), v)

\* the terms of the fixed keyword set
KeywordSet ==
    { <<"r", "e", "n", "d", "e", "z", "-", "v", "o", "u", "s">>, <<"r", "e", "n", "d", "e", "z", "v", "o", "u", "s">>, <<"r", "d", "v">>, <<"v", "i", "s", "a">>, <<"a", "p", "p", "o", "i", "n", "t", "m", "e", "n", "t">>,
      <<"c", "o", "n", "f", "i", "r", "m", "e", "r">>, <<"c", "o", "n", "f", "i", "r", "m", "e", "d">>, <<"c", "o", "n", "f", "i", "r", "m", "a", "t", "i", "o", "n">>, <<"t", "l", "s", "c", "o", "n", "t", "a", "c", "t">>,
      <<"t", "l", "s", "-", "c", "o", "n", "t", "a", "c", "t">> }

\* subject, snippet or body contains a term of the set, whatever the case
MentionsKeyword(m) ==
    \E k \in KeywordSet :
        \/ Contains(lower(m.subject), k)
        \/ Contains(lower(m.snippet), k)
        \/ Contains(lower(m.body), k)

\* C18: a message whose sender matches one of the domain variants
\* (@tlscontact., @tls-contact., @tlsvisa., in any case) is classified
\* isTls = true whatever its subject, snippet and body hold.
C18_DomainClassified ==
    (mail.pc = "parsed" /\ SenderMatches(mail.msg)) => mail.result.isTls

\* C18 witness: a message from a variant domain written in capitals, with no
\* keyword anywhere, has been classified.
C18_Witness ==
    /\ mail.pc = "parsed"
    /\ mail.msg.from = <<"v", "i", "s", "a", "@", "T", "L", "S", "-", "C", "o", "n", "t", "a", "c", "t", ".", "c", "o", "m">>
    /\ ~MentionsKeyword(mail.msg)
    /\ mail.result.isTls

\* C19: a message with a sender that does not match and no keyword in its
\* subject, snippet or body is classified isTls = false and nothing is
\* extracted for it: parsed is false, date, dateRaw and link are null.
C19_PlainNotClassified ==
    (mail.pc = "parsed" /\ ~SenderMatches(mail.msg) /\ ~MentionsKeyword(mail.msg)) =>
        /\ mail.result.isTls = FALSE
        /\ mail.result.parsed = FALSE
        /\ mail.result.date = {}
        /\ mail.result.dateRaw = {}
        /\ mail.result.link = {}

\* C19 witness: a plain message whose body holds a link, from a sender that
\* names the organization before the @, has been parsed.
C19_Witness ==
    /\ mail.pc = "parsed"
    /\ mail.msg.from = <<"t", "l", "s", "c", "o", "n", "t", "a", "c", "t", "@", "e", "x", "a", "m", "p", "l", "e", ".", "c", "o", "m">>
    /\ mail.msg.body = <<"h", "t", "t", "p", "s", ":", "/", "/", "e", "x", "a", "m", "p", "l", "e", ".", "c", "o", "m", "/", "a">>
    /\ mail.result.isTls = FALSE

\* C20 as stated: a message from a sender that does not match is classified
\* isTls = true whenever its subject, snippet or body contains a term of the
\* fixed keyword set (rendez-vous/rendezvous, rdv, visa, appointment,
\* confirmer/confirmed/confirmation, tlscontact/tls-contact; any case).
C20_KeywordClassified ==
    (mail.pc = "parsed" /\ ~SenderMatches(mail.msg) /\ MentionsKeyword(mail.msg)) =>
        mail.result.isTls

\* the part of C20 the code does: the terms of the pattern at line 39
C20_InlineKeywordClassified ==
    (/\ mail.pc = "parsed"
     /\ \E k \in { <<"r", "e", "n", "d", "e", "z", "-", "v", "o", "u", "s">>, <<"r", "e", "n", "d", "e", "z", "v", "o", "u", "s">>, <<"r", "d", "v">>, <<"v", "i", "s", "a">>,
                   <<"t", "l", "s", "c", "o", "n", "t", "a", "c", "t">>, <<"t", "l", "s", "-", "c", "o", "n", "t", "a", "c", "t">> } :
           \/ Contains(lower(mail.msg.subject), k)
           \/ Contains(lower(mail.msg.snippet), k)
           \/ Contains(lower(mail.msg.body), k))
    => mail.result.isTls

\* ============================================= format_for_telegram
\* The notification text as the pieces it is put together from: the
\* formatter's own markup, and the values of the parsed message set into
\* it. Pictographs and accents of the literals are left out.

NL == <<"\n">>

Own(s) == [of |-> "formatter", s |-> s]
Put(field, s) == [of |-> field, s |-> s]

RECURSIVE replace(_, _, _)
\* str.replace(c, r) for a single character c
replace(s, c, r) ==
    IF s = <<>> THEN <<>>
    ELSE (IF s[1] = c THEN r ELSE <<s[1]>>) \o replace(Tail(s), c, r)

\* escape_html (utils.py lines 122-131)
escape_html(text) ==
    IF text = <<>> THEN <<>>
    ELSE replace(replace(replace(replace(text, "&", <<"&", "a", "m", "p", ";">>),
                                 "<", <<"&", "l", "t", ";">>),
                         ">", <<"&", "g", "t", ";">>),
                 "\"", <<"&", "q", "u", "o", "t", ";">>)

NeutralHeader   == <<"<", "b", ">", "T", "L", "S", "c", "o", "n", "t", "a", "c", "t", " ", "U", "p", "d", "a", "t", "e", "<", "/", "b", ">">>
EmergencyHeader == <<"<", "b", ">", "E", "M", "E", "R", "G", "E", "N", "C", "Y", ":", " ", "A", "P", "P", "O", "I", "N", "T", "M", "E", "N", "T", " ", "F", "O", "U", "N", "D", "<", "/", "b", ">">>

\* r'rendez-?vous|rdv|appointment', re.IGNORECASE (line 164)
AppointmentKeywords ==
    { <<"r", "e", "n", "d", "e", "z", "-", "v", "o", "u", "s">>, <<"r", "e", "n", "d", "e", "z", "v", "o", "u", "s">>, <<"r", "d", "v">>, <<"a", "p", "p", "o", "i", "n", "t", "m", "e", "n", "t">> }

\* variant: the snippet is searched too
is_appointment_AllFields(parsed) ==
    Search(AppointmentKeywords,
           parsed.subject \o Space \o parsed.snippet \o Space \o parsed.rawBody)

\* line 164: subject and rawBody are searched
is_appointment(parsed) ==
    Search(AppointmentKeywords, parsed.subject \o Space \o parsed.rawBody)

SnippetLimit == 150

\* strftime('%A %d %B %Y %H:%M') of SomeDate
PrettyDate == <<"T", "u", "e", "s", "d", "a", "y", " ", "1", "5", " ", "J", "a", "n", "u", "a", "r", "y", " ", "2", "0", "3", "0", " ", "1", "0", ":", "0", "0">>

\* lines 161-174
header_of(parsed) ==
    LET header == IF is_appointment(parsed) /\ parsed.parsed
                  THEN EmergencyHeader ELSE NeutralHeader
    IN  IF "SPAM" \in parsed.labels THEN <<"<", "b", ">", "S", "p", "a", "m", " ", "D", "e", "t", "e", "c", "t", ":", "<", "/", "b", ">", " ">> \o header
        ELSE IF "TRASH" \in parsed.labels THEN <<"<", "b", ">", "T", "r", "a", "s", "h", " ", "D", "e", "t", "e", "c", "t", ":", "<", "/", "b", ">", " ">> \o header
        ELSE header

\* format_for_telegram (lines 159-210)
format_for_telegram(parsed, id) ==
    LET head == <<Own(header_of(parsed) \o NL \o NL)>>
        date == IF parsed.parsed /\ parsed.date # None
                THEN <<Own(<<"<", "b", ">", "D", "a", "t", "e", ":", "<", "/", "b", ">", " ">> \o PrettyDate \o NL)>> \o
                     (IF parsed.dateRaw # None
                      THEN <<Own(<<" ", " ", " ", "(", "S", "o", "u", "r", "c", "e", ":", " ", "\"">>),
                             Put("dateRaw", CHOOSE r \in parsed.dateRaw : TRUE),
                             Own(<<"\"", ")">> \o NL)>>
                      ELSE <<>>)
                ELSE <<Own(<<"<", "b", ">", "D", "a", "t", "e", ":", "<", "/", "b", ">", " ", "I", "n", "f", "o", "r", "m", "a", "t", "i", "o", "n", " ", "n", "o", "n", " ", "d", "e", "t", "e", "c", "t", "e", "e">> \o NL)>>
        who  == <<Own(NL \o <<"<", "b", ">", "F", "r", "o", "m", ":", "<", "/", "b", ">", " ">>),
                  Put("from", escape_html(parsed.from)),
                  Own(NL \o <<"<", "b", ">", "S", "u", "b", "j", "e", "c", "t", ":", "<", "/", "b", ">", " ">>),
                  Put("subject", escape_html(parsed.subject)),
                  Own(NL)>>
        link == IF parsed.link # None
                THEN <<Own(NL \o <<"<", "b", ">", "L", "i", "n", "k", ":", "<", "/", "b", ">", " ", "<", "a", " ", "h", "r", "e", "f", "=", "\"">>),
                       Put("link", CHOOSE l \in parsed.link : TRUE),
                       Own(<<"\"", ">", "O", "u", "v", "r", "i", "r", " ", "l", "e", " ", "p", "o", "r", "t", "a", "i", "l", "<", "/", "a", ">">> \o NL)>>
                ELSE <<>>
        prev == IF parsed.snippet # <<>>
                THEN LET short_snippet ==
                             SubSeq(parsed.snippet, 1,
                                    Min(Len(parsed.snippet), SnippetLimit))
                         suffix == IF Len(parsed.snippet) > SnippetLimit
                                   THEN <<".", ".", ".">> ELSE <<>>
                     IN  <<Own(NL \o <<"<", "b", ">", "P", "r", "e", "v", "i", "e", "w", ":", "<", "/", "b", ">">> \o NL \o <<"<", "i", ">">>),
                           Put("snippet", escape_html(short_snippet)),
                           Own(suffix \o <<"<", "/", "i", ">">> \o NL)>>
                ELSE <<>>
        foot == <<Own(NL \o <<"<", "c", "o", "d", "e", ">", "I", "D", ":", " ">> \o id \o <<"<", "/", "c", "o", "d", "e", ">">>)>>
    IN  head \o date \o who \o link \o prev \o foot

\* ------------------------------------------- messages with markup in them
\* a part of a body, with what it holds: the target of an anchor, the URL a
\* scan of the plain text finds in it, and whether that names the portal
Part(text, href, url, preferred) ==
    [text |-> text, href |-> href, url |-> url, preferred |-> preferred]

BodyParts ==
    { Part(<<"<", "a", " ", "h", "r", "e", "f", "=", "\"", "h", "t", "t", "p", ":", "/", "/", "o", "t", "h", "e", "r", ".", "c", "o", "m", "/", "x", "\"", ">">>,
           Returned(<<"h", "t", "t", "p", ":", "/", "/", "o", "t", "h", "e", "r", ".", "c", "o", "m", "/", "x">>), Returned(<<"h", "t", "t", "p", ":", "/", "/", "o", "t", "h", "e", "r", ".", "c", "o", "m", "/", "x">>), FALSE),
      Part(<<"<", "a", " ", "h", "r", "e", "f", "=", "\"", "h", "t", "t", "p", "s", ":", "/", "/", "T", "L", "S", "C", "o", "n", "t", "a", "c", "t", ".", "c", "o", "m", "/", "b", "o", "o", "k", "\"", ">">>,
           Returned(<<"h", "t", "t", "p", "s", ":", "/", "/", "T", "L", "S", "C", "o", "n", "t", "a", "c", "t", ".", "c", "o", "m", "/", "b", "o", "o", "k">>),
           Returned(<<"h", "t", "t", "p", "s", ":", "/", "/", "T", "L", "S", "C", "o", "n", "t", "a", "c", "t", ".", "c", "o", "m", "/", "b", "o", "o", "k">>), TRUE),
      Part(<<"<", "a", " ", "h", "r", "e", "f", "=", "\"", "m", "a", "i", "l", "t", "o", ":", "a", "@", "b", ".", "c", "\"", ">">>, None, None, FALSE),
      Part(<<"<", "a", " ", "h", "r", "e", "f", "=", "\"", "H", "T", "T", "P", ":", "/", "/", "U", "P", ".", "C", "O", "M", "/", "a", "\"", ">">>, None, Returned(<<"H", "T", "T", "P", ":", "/", "/", "U", "P", ".", "C", "O", "M", "/", "a">>), FALSE),
      Part(<<"h", "t", "t", "p", "s", ":", "/", "/", "s", "i", "t", "e", ".", "c", "o", "m", "/", "c", "o", "n", "f", "i", "r", "m", "?", "a", "=", "1", "&", "b", "=", "2", ".">>,
           None, Returned(<<"h", "t", "t", "p", "s", ":", "/", "/", "s", "i", "t", "e", ".", "c", "o", "m", "/", "c", "o", "n", "f", "i", "r", "m", "?", "a", "=", "1", "&", "b", "=", "2">>), TRUE),
      Part(<<"h", "t", "t", "p", ":", "/", "/", "p", "l", "a", "i", "n", ".", "o", "r", "g", "/", "p", ",">>, None, Returned(<<"h", "t", "t", "p", ":", "/", "/", "p", "l", "a", "i", "n", ".", "o", "r", "g", "/", "p">>), FALSE),
      Part(<<"R", "e", "n", "d", "e", "z", "-", "v", "o", "u", "s">>, None, None, FALSE) }

PartLists == UNION {[1..n -> BodyParts] : n \in 0..MaxParts}

BodyOf(parts) == Join([i \in 1..Len(parts) |-> parts[i].text])

\* sender, subject, snippet and labels of the messages taken
Envelopes ==
    { [from |-> <<"n", "o", "r", "e", "p", "l", "y", "@", "t", "l", "s", "c", "o", "n", "t", "a", "c", "t", ".", "c", "o", "m">>,
       subject |-> <<"V", "o", "t", "r", "e", " ", "R", "D", "V">>,
       snippet |-> <<>>,
       labelIds |-> {"INBOX"}],
      [from |-> <<"n", "o", "r", "e", "p", "l", "y", "@", "t", "l", "s", "c", "o", "n", "t", "a", "c", "t", ".", "c", "o", "m">>,
       subject |-> <<"I", "n", "f", "o", " ", "<", "b", ">", " ", "&", " ", "c", "o">>,
       snippet |-> <<"R", "D", "V", " ", "d", "e", "m", "a", "i", "n">>,
       labelIds |-> {"INBOX"}],
      [from |-> <<"\"", "T", "o", "m", " ", "&", " ", "C", "o", "\"", " ", "<", "t", "o", "m", "@", "e", "x", "a", "m", "p", "l", "e", ".", "c", "o", "m", ">">>,
       subject |-> <<"V", "o", "t", "r", "e", " ", "R", "D", "V">>,
       snippet |-> <<"a", " ", "\"", "q", "\"", " ", "<", "i", ">">>,
       labelIds |-> {"SPAM"}],
      [from |-> <<"\"", "T", "o", "m", " ", "&", " ", "C", "o", "\"", " ", "<", "t", "o", "m", "@", "e", "x", "a", "m", "p", "l", "e", ".", "c", "o", "m", ">">>,
       subject |-> <<"I", "n", "f", "o", " ", "<", "b", ">", " ", "&", " ", "c", "o">>,
       snippet |-> <<>>,
       labelIds |-> {"TRASH"}],
      [from |-> <<"n", "o", "r", "e", "p", "l", "y", "@", "t", "l", "s", "c", "o", "n", "t", "a", "c", "t", ".", "c", "o", "m">>,
       subject |-> <<"I", "n", "f", "o", " ", "<", "b", ">", " ", "&", " ", "c", "o">>,
       snippet |-> <<"a", " ", "\"", "q", "\"", " ", "<", "i", ">">>,
       labelIds |-> {"SPAM"}],
      [from |-> <<"n", "o", "r", "e", "p", "l", "y", "@", "t", "l", "s", "c", "o", "n", "t", "a", "c", "t", ".", "c", "o", "m">>,
       subject |-> <<"V", "o", "t", "r", "e", " ", "R", "D", "V">>,
       snippet |-> <<"R", "D", "V", " ", "d", "e", "m", "a", "i", "n">>,
       labelIds |-> {"TRASH"}] }

MessageId == <<"m", "s", "g", "_", "1", "2", "3">>

\* get_message hands over a message with markup and links in it
ReceiveRich ==
    /\ mail.pc = "none"
    /\ \E envelope \in Envelopes, parts \in PartLists :
          mail' = [pc |-> "received", parts |-> parts,
                   msg |-> envelope @@ [body |-> BodyOf(parts)]]
    /\ UNCHANGED parserFrame

\* parse_message on it (watcher.py line 82)
ParseRich ==
    /\ mail.pc = "received"
    /\ \E dated \in DateFinds(mail.msg) :
          mail' = [pc |-> "parsed", parts |-> mail.parts, msg |-> mail.msg,
                   result |-> parse_message(mail.msg, dated)]
    /\ UNCHANGED parserFrame

\* send_appointment_notification (notifier.py lines 81-86): the text of the
\* notification for a classified message
Format ==
    /\ mail.pc = "parsed"
    /\ mail.result.isTls
    /\ mail' = [mail EXCEPT !.pc = "formatted"] @@
               [payload |-> format_for_telegram(mail.result, MessageId)]
    /\ UNCHANGED parserFrame

\* the text has gone to send_message
Handed ==
    /\ mail.pc = "formatted"
    /\ mail' = [pc |-> "none"]
    /\ UNCHANGED parserFrame

NotifyNext ==
    \/ ReceiveRich
    \/ ParseRich
    \/ Format
    \/ Forget
    \/ Handed

NotifySpec == ParserInit /\ [][NotifyNext]_vars

\* ------------------------------------------------------------- C21
Formatted == mail.pc = "formatted"

\* an appointment keyword stands in the subject, the snippet or the body
MentionsAppointment ==
    \/ mail.msg.subject = <<"V", "o", "t", "r", "e", " ", "R", "D", "V">>
    \/ mail.msg.snippet = <<"R", "D", "V", " ", "d", "e", "m", "a", "i", "n">>
    \/ \E i \in 1..Len(mail.parts) : mail.parts[i].text = <<"R", "e", "n", "d", "e", "z", "-", "v", "o", "u", "s">>

HeaderHas(title) == Contains(mail.payload[1].s, title)

\* C21: the notification carries the emergency header exactly when a date
\* was extracted and subject, snippet or body hold an appointment keyword;
\* in every other case it carries the neutral update header.
C21_EmergencyHeader ==
    Formatted =>
        LET urgent == mail.result.parsed /\ MentionsAppointment
        IN  /\ HeaderHas(EmergencyHeader) <=> urgent
            /\ HeaderHas(NeutralHeader) <=> ~urgent

\* ------------------------------------------------------------- C22
RECURSIVE Collect(_, _)
\* the values of one kind that the parts of a body hold, in document order,
\* each with whether it names the portal
Collect(parts, kind) ==
    IF parts = <<>> THEN <<>>
    ELSE LET part == Head(parts)
             found == IF kind = "href" THEN part.href ELSE part.url
         IN  (IF found = None THEN <<>>
              ELSE <<[link |-> CHOOSE l \in found : TRUE,
                      preferred |-> part.preferred]>>)
             \o Collect(Tail(parts), kind)

Collected(parts) ==
    IF Collect(parts, "href") # <<>> THEN Collect(parts, "href")
    ELSE Collect(parts, "url")

ExpectedLink(parts) ==
    LET links == Collected(parts)
        hits  == {i \in 1..Len(links) : links[i].preferred}
    IN  IF links = <<>> THEN None
        ELSE IF hits = {} THEN Returned(links[1].link)
        ELSE Returned(links[CHOOSE i \in hits : \A j \in hits : i <= j].link)

\* C22: extract_link returns the first collected link that holds
\* 'tlscontact' or 'confirm' in any case, else the first collected link, and
\* nothing only when the body holds no link in markup or plain text.
C22_LinkChosen ==
    (mail.pc \in {"parsed", "formatted"} /\ mail.result.isTls) =>
        mail.result.link = ExpectedLink(mail.parts)

C22_Witness ==
    /\ mail.pc = "parsed"
    /\ mail.result.isTls
    /\ Len(mail.parts) = 2
    /\ mail.parts[1].href = Returned(<<"h", "t", "t", "p", ":", "/", "/", "o", "t", "h", "e", "r", ".", "c", "o", "m", "/", "x">>)
    /\ mail.parts[2].href = Returned(<<"h", "t", "t", "p", "s", ":", "/", "/", "T", "L", "S", "C", "o", "n", "t", "a", "c", "t", ".", "c", "o", "m", "/", "b", "o", "o", "k">>)
    /\ mail.result.link = Returned(<<"h", "t", "t", "p", "s", ":", "/", "/", "T", "L", "S", "C", "o", "n", "t", "a", "c", "t", ".", "c", "o", "m", "/", "b", "o", "o", "k">>)

\* ------------------------------------------------------------- C26
Entities == { <<"&", "a", "m", "p", ";">>, <<"&", "l", "t", ";">>, <<"&", "g", "t", ";">>, <<"&", "q", "u", "o", "t", ";">> }

Encoded(s) ==
    \A i \in 1..Len(s) :
        /\ s[i] \notin {"<", ">", "\""}
        /\ s[i] = "&" => \E e \in Entities : StartsWith(SubSeq(s, i, Len(s)), e)

\* C26: every piece of message text in the payload (sender, subject,
\* snippet, source string of the date, link target) has & < > " encoded.
C26_PayloadEncoded ==
    Formatted =>
        \A i \in 1..Len(mail.payload) :
            mail.payload[i].of # "formatter" => Encoded(mail.payload[i].s)

\* sender, subject and snippet are encoded
C26_EscapedFields ==
    Formatted =>
        \A i \in 1..Len(mail.payload) :
            mail.payload[i].of \in {"from", "subject", "snippet"}
                => Encoded(mail.payload[i].s)

\* ------------------------------------------------------------- C25
RECURSIVE Power(_, _)
Power(b, n) == IF n = 0 THEN 1 ELSE b * Power(b, n - 1)

\* C25: the sleep before the k-th retry is initial_delay * backoff_factor^(k-1)
\* capped at max_delay; the sleeps of a call never decrease and none exceeds
\* max_delay, whatever initial_delay, backoff_factor and max_delay are.
C25_DelaysCappedAndGrowing ==
    retry.pc # "none" =>
        /\ \A k \in 1..Len(retry.sleeps) :
              /\ retry.sleeps[k] =
                    Min(retry.initial_delay * Power(retry.backoff_factor, k - 1),
                        retry.max_delay)
              /\ retry.sleeps[k] <= retry.max_delay
        /\ \A k \in 2..Len(retry.sleeps) : retry.sleeps[k - 1] <= retry.sleeps[k]

\* with initial_delay within max_delay and a factor of at least one
C25_DelaysOfUsualSettings ==
    (/\ retry.pc # "none"
     /\ retry.initial_delay <= retry.max_delay
     /\ retry.backoff_factor >= 1) =>
        /\ \A k \in 1..Len(retry.sleeps) :
              retry.sleeps[k] =
                  Min(retry.initial_delay * Power(retry.backoff_factor, k - 1),
                      retry.max_delay)
        /\ \A k \in 2..Len(retry.sleeps) : retry.sleeps[k - 1] <= retry.sleeps[k]

\* ================================================ the search query
\* run_poll_cycle, watcher.py lines 28-43, on its own.

queryFrame == <<store, storage_impl, now, max_sends, isTls, loopPc, hist, cyc,
                lastOp, retry, limiter, mail>>

\* os.getenv(name, default)
getenv(value, default) == IF value = None THEN default
                          ELSE CHOOSE v \in value : TRUE

\* a value of POLL_QUERY, with what it holds: a folder scope of its own, and
\* a recency clause for the whole query ("whole"), for one branch of it
\* ("partial"), or none
Base(text, scoped, recency) ==
    [text |-> text, scoped |-> scoped, recency |-> recency]

DefaultQuery == <<"f", "r", "o", "m", ":", "(", "t", "l", "s", "c", "o", "n", "t", "a", "c", "t", ".", "c", "o", "m", ")">>

BaseQueries ==
    { Base(DefaultQuery, FALSE, "none"),
      Base(<<"f", "r", "o", "m", ":", "(", "t", "l", "s", "c", "o", "n", "t", "a", "c", "t", ".", "c", "o", "m", ")", " ", "n", "e", "w", "e", "r", "_", "t", "h", "a", "n", ":", "7", "d">>, FALSE, "whole"),
      Base(<<"i", "n", ":", "a", "n", "y", "w", "h", "e", "r", "e", " ", "f", "r", "o", "m", ":", "(", "t", "l", "s", "c", "o", "n", "t", "a", "c", "t", ".", "c", "o", "m", ")">>, TRUE, "none"),
      Base(<<"f", "r", "o", "m", ":", "a", " ", "O", "R", " ", "(", "f", "r", "o", "m", ":", "b", " ", "n", "e", "w", "e", "r", "_", "t", "h", "a", "n", ":", "7", "d", ")">>, FALSE, "partial"),
      Base(<<"s", "u", "b", "j", "e", "c", "t", ":", "v", "i", "s", "a">>, FALSE, "none") }

\* values of SEARCH_IN_ANYWHERE and SEARCH_QUERY_EXTRA; None: not set
AnywhereValues ==
    { None, Returned(<<"t", "r", "u", "e">>), Returned(<<"f", "a", "l", "s", "e">>), Returned(<<"F", "a", "l", "s", "e">>),
      Returned(<<"F", "A", "L", "S", "E">>), Returned(<<"0">>), Returned(<<"n", "o">>), Returned(<<>>) }

ExtraValues == { None, Returned(<<>>), Returned(<<"i", "s", ":", "u", "n", "r", "e", "a", "d">>),
                 Returned(<<"-", "l", "a", "b", "e", "l", ":", "d", "o", "n", "e">>) }

Wrapped(q) == <<"i", "n", ":", "a", "n", "y", "w", "h", "e", "r", "e", " ", "(">> \o q \o <<")">>
Recency == <<" ", "n", "e", "w", "e", "r", "_", "t", "h", "a", "n", ":", "1", "d">>

\* variant: the recency clause is appended before the query is wrapped
build_query_RecencyFirst(poll_query, anywhere, extra) ==
    LET q0 == getenv(poll_query, DefaultQuery)
        search_anywhere == lower(getenv(anywhere, <<"t", "r", "u", "e">>)) # <<"f", "a", "l", "s", "e">>
        q1 == IF ~Contains(q0, <<"n", "e", "w", "e", "r", "_", "t", "h", "a", "n", ":">>) THEN q0 \o Recency ELSE q0
        q2 == IF search_anywhere /\ ~Contains(q1, <<"i", "n", ":", "a", "n", "y", "w", "h", "e", "r", "e">>)
              THEN Wrapped(q1) ELSE q1
    IN  IF extra # None /\ extra # Returned(<<>>)
        THEN q2 \o Space \o getenv(extra, <<>>) ELSE q2

\* lines 29-43
build_query(poll_query, anywhere, extra) ==
    LET q0 == getenv(poll_query, DefaultQuery)
        search_anywhere == lower(getenv(anywhere, <<"t", "r", "u", "e">>)) # <<"f", "a", "l", "s", "e">>
        q1 == IF search_anywhere /\ ~Contains(q0, <<"i", "n", ":", "a", "n", "y", "w", "h", "e", "r", "e">>)
              THEN Wrapped(q0) ELSE q0
        q2 == IF ~Contains(q1, <<"n", "e", "w", "e", "r", "_", "t", "h", "a", "n", ":">>) THEN q1 \o Recency ELSE q1
    IN  IF extra # None /\ extra # Returned(<<>>)
        THEN q2 \o Space \o getenv(extra, <<>>) ELSE q2

\* a cycle builds its query from the settings it finds
BuildQuery ==
    /\ query.pc = "none"
    /\ \E poll_query \in {None} \cup {Returned(b) : b \in BaseQueries},
          anywhere \in AnywhereValues, extra \in ExtraValues :
          LET base == IF poll_query = None
                      THEN Base(DefaultQuery, FALSE, "none")
                      ELSE CHOOSE b \in poll_query : TRUE
          IN  query' = [pc |-> "built", base |-> base,
                        anywhere |-> anywhere, extra |-> extra,
                        text |-> build_query(IF poll_query = None THEN None
                                             ELSE Returned(base.text),
                                             anywhere, extra)]
    /\ UNCHANGED queryFrame

\* line 51: the query goes to list_messages
ListWith ==
    /\ query.pc = "built"
    /\ query' = [pc |-> "none"]
    /\ UNCHANGED queryFrame

QueryInit == store = {} /\ now = 0 /\ CycleIdle /\ AsideIdle

QueryNext ==
    \/ BuildQuery
    \/ ListWith

QuerySpec == QueryInit /\ [][QueryNext]_vars

\* ------------------------------------------------------------- C23
Built == query.pc = "built"

\* folder widening is enabled: SEARCH_IN_ANYWHERE is not 'false' in any case
Widening ==
    query.anywhere \notin
        {Returned(<<"f", "a", "l", "s", "e">>), Returned(<<"F", "a", "l", "s", "e">>), Returned(<<"F", "A", "L", "S", "E">>)}

ExtraPart ==
    IF query.extra \in {None, Returned(<<>>)} THEN <<>>
    ELSE Space \o (CHOOSE e \in query.extra : TRUE)

\* C23 as stated: the base is wrapped whenever widening is enabled, and the
\* final query always holds a recency clause for the whole widened scope.
C23_AlwaysWholeScope ==
    Built =>
        LET scope == IF Widening THEN Wrapped(query.base.text)
                     ELSE query.base.text
        IN  \/ query.base.recency = "none"
               /\ query.text = scope \o Recency \o ExtraPart
            \/ query.base.recency = "whole"
               /\ query.text = scope \o ExtraPart

\* C23: the base is wrapped as in:anywhere (<base>) when widening is enabled
\* and the base names no folder scope itself; the recency clause is appended
\* outside the wrapper when the base holds none at all; then the extra terms
\* are appended. A base without recency clause thus ends up restricted as a
\* whole; a recency clause of the base stays where the base has it.
C23_QueryComposed ==
    Built =>
        LET scope == IF Widening /\ ~query.base.scoped
                     THEN Wrapped(query.base.text) ELSE query.base.text
        IN  /\ query.base.recency = "none"
               => query.text = scope \o Recency \o ExtraPart
            /\ query.base.recency # "none"
               => query.text = scope \o ExtraPart
            /\ Contains(query.text, <<"n", "e", "w", "e", "r", "_", "t", "h", "a", "n", ":">>)

C23_Witness ==
    /\ Built
    /\ query.base.text = DefaultQuery
    /\ query.anywhere = Returned(<<"0">>)
    /\ query.extra = Returned(<<"i", "s", ":", "u", "n", "r", "e", "a", "d">>)
    /\ query.text = <<"i", "n", ":", "a", "n", "y", "w", "h", "e", "r", "e", " ", "(", "f", "r", "o", "m", ":", "(", "t", "l", "s", "c", "o", "n", "t", "a", "c", "t", ".", "c", "o", "m", ")", ")", " ", "n", "e", "w", "e", "r", "_", "t", "h", "a", "n", ":", "1", "d", " ", "i", "s", ":", "u", "n", "r", "e", "a", "d">>

\* ------------------------------------------------------------- C24
\* in the running cycle the send for id returned and its row is in the store
SucceededFor(id) == id \in L.sent /\ id \in StoredIds(store)

FetchedIn(c) == c.fetched

\* the liveness half is followed for the first id, which is a matching one
\* whenever any id is
FirstId == CHOOSE id \in Ids : \A other \in Ids : id <= other

\* C24 as stated: an id whose fetch, send and mark succeeded in some cycle is
\* seen from then on and never fetched again; and an id skipped for budget
\* is in the store when the cycle that skipped it returns.
C24_SkippedSeenAtReturn ==
    /\ SucceededFor(FirstId) ~> [](FirstId \in StoredIds(store))
    /\ [][\A id \in StoredIds(store) :
             /\ id \in StoredIds(store')
             /\ id \in FetchedIn(cyc'["loop"]) => id \in FetchedIn(L)]_vars
    /\ [](L.pc = "returned" => \A id \in L.skipped : id \in StoredIds(store))

\* C24: an id whose fetch, send and mark succeeded in some cycle is seen from
\* then on, and no cycle that lists it afterwards fetches it; an id skipped
\* for budget goes to mark_processed in the cycle that skips it, and is seen
\* when that cycle returns unless the call raised.
C24_SeenNeverFetched ==
    /\ SucceededFor(FirstId) ~> [](FirstId \in StoredIds(store))
    /\ [][\A id \in StoredIds(store) :
             /\ id \in StoredIds(store')
             /\ id \in FetchedIn(cyc'["loop"]) => id \in FetchedIn(L)]_vars
    /\ [](L.pc = "returned" =>
             \A id \in L.skipped :
                 id \in StoredIds(store) \/ MarkRaisedFor(L, id))

\* C24 witness: a cycle listed an id that an earlier cycle sent and marked,
\* and returned without fetching it.
C24_Witness ==
    /\ L.pc = "returned"
    /\ \E id \in Range(L.messages) :
         /\ notifiedTotal[id] >= 1
         /\ id \in StoredIds(store)
         /\ id \notin L.sent
         /\ id \notin FetchedIn(L)

\* ------------------------------------------------------------- C28
\* C28: in every state of a RateLimiter the balance lies between zero and
\* max_tokens, whatever acquire calls were made, with several callers
\* suspended at once and with requests larger than the balance.
C28_TokensInRange ==
    limiter.pc = "live" =>
        /\ 0 <= limiter.tokens
        /\ limiter.tokens <= limiter.max_tokens

\* the balance never exceeds max_tokens
C28_TokensBelowMax ==
    limiter.pc = "live" => limiter.tokens <= limiter.max_tokens

\* ======================================== the sends of a cycle, rate-limited
\* run_poll_cycle with send_message's rate limiter (notifier.py lines 23-25
\* and 40-42): init_telegram_client replaces the bucket, and every send
\* goes through acquire(1) first. Examined with every call but the send
\* succeeding, and with time passing only while a send is waiting or in
\* flight.

OtherFault(c) ==
    \/ c.pc = "raised"
    \/ \E f \in c.failed : f.op # "send"

InAcquire == limiter.in["loop"]

\* a step of the cycle outside send_message
Quiet(A) ==
    /\ limiter.pc = "live" => InAcquire.pc = "outside"
    /\ A
    /\ ~OtherFault(cyc'["loop"])

\* watcher.py lines 24-26 succeeding: the bucket is replaced by a full one
InitClientsFresh ==
    /\ L.pc = "init"
    /\ storage_impl' = TRUE
    /\ limiter' = RateLimiter(max_sends, now)
    /\ cyc' = [cyc EXCEPT !["loop"].pc = "list"]
    /\ UNCHANGED <<store, now, max_sends, isTls, loopPc, hist, lastOp, retry,
                   mail, query>>

\* send_message line 42: acquire(1) before the post
SendAcquire == L.pc = "send" /\ AcquireEnter("loop", 1)

SendWake == L.pc = "send" /\ AcquireWake("loop")

\* time passes while the send waits for its token or for Telegram
SendWaits == L.pc = "send" /\ LimiterTick

\* send_message lines 44-79: the post with its retries, once acquire returned
SendPosted ==
    /\ limiter.pc = "live"
    /\ InAcquire.pc = "returned"
    /\ SendNotification("loop")

\* send_message has returned or raised; the loop is past watcher.py line 98
SendLeft == L.pc # "send" /\ AcquireLeave("loop")

GatedNext ==
    \/ Quiet(RunInitial)
    \/ Quiet(SleepThenRun)
    \/ Quiet(CycleReturned)
    \/ Quiet(InitClientsFresh)
    \/ Quiet(ListMessages("loop"))
    \/ Quiet(HasProcessed("loop"))
    \/ Quiet(GetMessage("loop"))
    \/ Quiet(ParseMessage("loop"))
    \/ Quiet(MarkProcessed("loop"))
    \/ SendAcquire
    \/ SendWake
    \/ SendWaits
    \/ SendPosted
    \/ SendLeft

GatedSpec == Init /\ [][GatedNext]_vars

====
